---------------------------- MODULE Spec2Model ----------------------------
(***************************************************************************)
(* A model of the RKTK quasi-Newton (BFGS) search engine: the optimizer    *)
(* state machine of nonlinear_optimizers.hpp driven by the main loop of    *)
(* rksearch_main.cpp, the two quadratic line searches, the inverse-Hessian *)
(* update and the checkpoint filename helpers.                             *)
(*                                                                         *)
(* Numbers.  An mpfr_t is modelled as a binary floating-point number       *)
(* m * 2^e with a mantissa m of exactly Prec bits (2^(Prec-1) <= |m| <     *)
(* 2^Prec), rounded to nearest, ties to even (MPFR_RNDN), and a magnitude  *)
(* between 2^-ExpRange and 2^ExpRange; beyond that range a result becomes  *)
(* an infinity or zero.  The special values are Zero, NaN, PInf and NInf.  *)
(* Every arithmetic operator below rounds its exact result once, as the    *)
(* MPFR call it models does.                                               *)
(***************************************************************************)
EXTENDS Integers, Sequences, FiniteSets, TLC

\* Number of optimization variables (NUM_VARS is 136 in the program).
NumVars == 2
\* Working precision in bits (argv[1] of the program, 53 by default).
Prec == 4
\* Exponent range of the number model.
ExpRange == 30
MaxRetries == 3

RECURSIVE Pow2(_)
Pow2(k) == IF k <= 0 THEN 1 ELSE 2 * Pow2(k - 1)

RECURSIVE BitLen(_)
BitLen(a) == IF a = 0 THEN 0 ELSE 1 + BitLen(a \div 2)

Abs(a) == IF a < 0 THEN -a ELSE a
Sign(a) == IF a < 0 THEN -1 ELSE IF a > 0 THEN 1 ELSE 0

EInf == ExpRange + 2
ENaN == ExpRange + 3
Zero == [m |-> 0, e |-> 0]
PInf == [m |-> 1, e |-> EInf]
NInf == [m |-> -1, e |-> EInf]
NaN == [m |-> 0, e |-> ENaN]

IsNaN(a) == a.e = ENaN
IsInf(a) == a.e = EInf
IsNum(a) == a.e < EInf

\* A normalized mantissa and exponent, checked against the exponent range.
Finite(m, e) ==
    IF e + Prec - 1 > ExpRange THEN (IF m < 0 THEN NInf ELSE PInf)
    ELSE IF e + Prec - 1 < -ExpRange THEN Zero
    ELSE [m |-> m, e |-> e]

\* A rounded mantissa q (q <= 2^Prec) with sign s.
Carry(s, q, e) ==
    IF q = Pow2(Prec) THEN Finite(s * Pow2(Prec - 1), e + 1)
    ELSE Finite(s * q, e)

\* Round to nearest, ties to even: q is the kept part, r the dropped part,
\* half the midpoint; sticky says the exact value lies above q and r.
RoundUp(q, r, half, sticky) ==
    r > half \/ (r = half /\ (sticky \/ q % 2 = 1))

DropBits(s, a, e, k, sticky) ==
    Carry(s, (a \div Pow2(k))
             + (IF RoundUp(a \div Pow2(k), a % Pow2(k), Pow2(k - 1), sticky)
                THEN 1 ELSE 0),
          e + k)

Place(s, a, e, bl, sticky) ==
    IF bl <= Prec THEN Finite(s * a * Pow2(Prec - bl), e - (Prec - bl))
    ELSE DropBits(s, a, e, bl - Prec, sticky)

\* The floating-point number nearest to the exact value (|m| + t) * 2^e with
\* the sign of m, where t = 0 unless sticky, and then 0 < t < 1 (a sticky
\* value has more than Prec bits).
Round(m, e, sticky) ==
    IF m = 0 THEN Zero
    ELSE Place(Sign(m), Abs(m), e, BitLen(Abs(m)), sticky)

\* The integer n, and n / 2^k, as numbers.
FromInt(n) == Round(n, 0, FALSE)
Dyadic(n, k) == Round(n, -k, FALSE)
ONE == FromInt(1)

\* Exact sums: both terms are first written with 2 * Prec bits.
Widen(m, e, bl) ==
    [m |-> m * Pow2(2 * Prec - bl), e |-> e - (2 * Prec - bl)]

\* h.e >= l.e.  A term too small to reach the rounding position of the other
\* only says on which side of it the sum lies.
SumAligned(h, l) ==
    IF h.e - l.e >= 2 * Prec + 2
    THEN Round(4 * h.m - (IF Sign(l.m) = Sign(h.m) THEN 0 ELSE Sign(h.m)),
               h.e - 2, TRUE)
    ELSE Round(h.m * Pow2(h.e - l.e) + l.m, l.e, FALSE)

SumExact(a, b) == IF a.e >= b.e THEN SumAligned(a, b) ELSE SumAligned(b, a)

\* m1 * 2^e1 + m2 * 2^e2, rounded once (|m1|, |m2| < 2^(2 * Prec)).
AddRound(m1, e1, m2, e2) ==
    IF m1 = 0 THEN Round(m2, e2, FALSE)
    ELSE IF m2 = 0 THEN Round(m1, e1, FALSE)
    ELSE SumExact(Widen(m1, e1, BitLen(Abs(m1))),
                  Widen(m2, e2, BitLen(Abs(m2))))

Neg(a) == IF IsNaN(a) THEN NaN ELSE [m |-> -a.m, e |-> a.e]

Add(a, b) ==
    IF IsNaN(a) \/ IsNaN(b) THEN NaN
    ELSE IF IsInf(a) /\ IsInf(b) THEN (IF a = b THEN a ELSE NaN)
    ELSE IF IsInf(a) THEN a
    ELSE IF IsInf(b) THEN b
    ELSE AddRound(a.m, a.e, b.m, b.e)

Sub(a, b) == Add(a, Neg(b))

Mul(a, b) ==
    IF IsNaN(a) \/ IsNaN(b) THEN NaN
    ELSE IF IsInf(a) \/ IsInf(b)
         THEN (IF a.m = 0 \/ b.m = 0 THEN NaN
               ELSE IF Sign(a.m) * Sign(b.m) > 0 THEN PInf ELSE NInf)
    ELSE Round(a.m * b.m, a.e + b.e, FALSE)

Sqr(a) == Mul(a, a)

\* The quotient n / d of two mantissas, n scaled to leave Prec + 1 bits.
DivScaled(s, n, d, e) == Round(s * (n \div d), e, n % d # 0)

Div(a, b) ==
    IF IsNaN(a) \/ IsNaN(b) THEN NaN
    ELSE IF IsInf(a) /\ IsInf(b) THEN NaN
    ELSE IF IsInf(a) THEN (IF Sign(a.m) * Sign(b.m) >= 0 THEN PInf ELSE NInf)
    ELSE IF IsInf(b) THEN Zero
    ELSE IF b.m = 0
         THEN (IF a.m = 0 THEN NaN ELSE IF a.m > 0 THEN PInf ELSE NInf)
    ELSE DivScaled(Sign(a.m) * Sign(b.m), Abs(a.m) * Pow2(Prec + 1),
                   Abs(b.m), a.e - b.e - (Prec + 1))

\* a * b + c with a single rounding.
Fma(a, b, c) ==
    IF IsNum(a) /\ IsNum(b) /\ IsNum(c)
    THEN AddRound(a.m * b.m, a.e + b.e, c.m, c.e)
    ELSE Add(Mul(a, b), c)

\* a * b - c with a single rounding.
Fms(a, b, c) == Fma(a, b, Neg(c))

\* Multiplication and division by 2^k.
Mul2(a, k) == IF IsNum(a) /\ a.m # 0 THEN Finite(a.m, a.e + k) ELSE a
Div2(a, k) == IF IsNum(a) /\ a.m # 0 THEN Finite(a.m, a.e - k) ELSE a
MulUi(a, n) == IF IsNum(a) THEN Round(a.m * n, a.e, FALSE) ELSE a

\* Largest r in lo..hi with r * r <= v (bisection).
RECURSIVE ISqrt(_, _, _)
ISqrt(v, lo, hi) ==
    IF lo >= hi THEN lo
    ELSE IF ((lo + hi + 1) \div 2) * ((lo + hi + 1) \div 2) <= v
    THEN ISqrt(v, (lo + hi + 1) \div 2, hi)
    ELSE ISqrt(v, lo, ((lo + hi + 1) \div 2) - 1)

\* Square root, correctly rounded: the root r of the scaled mantissa n, and
\* whether it is exact.
SqrtRound(n, r, e) == Round(r, e, r * r # n)
SqrtScaled(n, e) == SqrtRound(n, ISqrt(n, 0, Pow2(Prec + 2)), e \div 2)
SqrtShift(a, sh) == SqrtScaled(a.m * Pow2(sh), a.e - sh)

Sqrt(a) ==
    IF IsNaN(a) \/ a.m < 0 THEN NaN
    ELSE IF IsInf(a) \/ a.m = 0 THEN a
    ELSE SqrtShift(a, IF (a.e - (Prec + 1)) % 2 = 0
                      THEN Prec + 1 ELSE Prec + 2)

\* mpfr_sgn and mpfr_zero_p: a NaN has sign 0 and is not zero.
mpfr_sgn(a) == Sign(a.m)
mpfr_zero_p(a) == a = Zero

\* a < b for two numbers that are not NaN.
Below(a, b) ==
    IF Sign(a.m) # Sign(b.m) THEN Sign(a.m) < Sign(b.m)
    ELSE IF a.m > 0 THEN a.e < b.e \/ (a.e = b.e /\ a.m < b.m)
    ELSE IF a.m < 0 THEN a.e > b.e \/ (a.e = b.e /\ a.m < b.m)
    ELSE FALSE

Less(a, b) == ~IsNaN(a) /\ ~IsNaN(b) /\ Below(a, b)
GreaterEqual(a, b) == ~IsNaN(a) /\ ~IsNaN(b) /\ ~Below(a, b)
Equal(a, b) == ~IsNaN(a) /\ ~IsNaN(b) /\ a = b

(***************************************************************************)
(* Vectors and matrices (MPFRVector, MPFRMatrix, linalg_subroutines).      *)
(***************************************************************************)
Idx == 1..NumVars
Vectors(S) == [Idx -> S]
\* The vectors over S an input is drawn from: the first two entries are free,
\* every further entry repeats the first.
Starts(S) == {v \in Vectors(S) : \A i \in Idx : i > 2 => v[i] = v[1]}
NaNVector == [i \in Idx |-> NaN]
ZeroVector == [i \in Idx |-> Zero]
AnyNaN(v) == \E i \in Idx : IsNaN(v[i])

\* MPFRVector::operator== and elementwise_equal: mpfr_equal_p on every entry.
elementwise_equal(v, w) == \A i \in Idx : Equal(v[i], w[i])

\* MPFRVector::set_axpy, and the mpfr_fma loops of step() and the line
\* search: a * v[i] + w[i], rounded once.
set_axpy(a, v, w) == [i \in Idx |-> Fma(a, v[i], w[i])]

set_sub(v, w) == [i \in Idx |-> Sub(v[i], w[i])]

scale(coeff, v) == [i \in Idx |-> Mul(coeff, v[i])]

\* Left-to-right accumulation with fma, as in dot() and norm().
RECURSIVE FmaSum(_, _, _, _)
FmaSum(v, w, i, acc) ==
    IF i > NumVars THEN acc ELSE FmaSum(v, w, i + 1, Fma(v[i], w[i], acc))

dot(v, w) == FmaSum(v, w, 2, Mul(v[1], w[1]))

norm(v) == Sqrt(FmaSum(v, v, 2, Sqr(v[1])))

\* tmp = -1 / norm; every entry is multiplied by tmp.  The result holds the
\* vector and the scratch value the caller's tmp is left with.
NormalizeWith(v, tmp) == [tmp |-> tmp, v |-> scale(tmp, v)]
NormalizeGuarded(v) ==
    IF mpfr_zero_p(norm(v)) THEN [tmp |-> norm(v), v |-> v]
    ELSE NormalizeWith(v, Div(Neg(ONE), norm(v)))
negate_and_normalize(v) == NormalizeWith(v, Div(Neg(ONE), norm(v)))

identity_matrix == [i \in Idx |-> [j \in Idx |-> IF i = j THEN ONE ELSE Zero]]

matrix_vector_multiply(mat, vec) ==
    [i \in Idx |-> FmaSum(mat[i], vec, 2, Mul(mat[i][1], vec[1]))]

(***************************************************************************)
(* The objective function and its gradient are external to the optimizer:  *)
(* deterministic functions of the point, evaluated in the working          *)
(* precision.  The model offers a small family of them, a sum over the     *)
(* coordinates of one of three residual shapes around a centre c.          *)
(***************************************************************************)
Shapes == {"quad", "well", "cubic"}
Centres == {Dyadic(5, 3), ONE}
Objectives == [shape : Shapes, c : Centres]

Residual(o, xi) ==
    CASE o.shape = "quad"  -> Sub(xi, o.c)
      [] o.shape = "well"  -> Sub(Sqr(xi), o.c)
      [] o.shape = "cubic" -> Mul(xi, Sub(Sqr(xi), o.c))

TermOf(o, r) == Sqr(r)

RECURSIVE SumTerms(_, _, _, _)
SumTerms(o, v, i, acc) ==
    IF i > NumVars THEN acc
    ELSE SumTerms(o, v, i + 1, Add(acc, TermOf(o, Residual(o, v[i]))))

objective_function(o, v) == SumTerms(o, v, 2, TermOf(o, Residual(o, v[1])))

PartialOf(o, xi, r) ==
    CASE o.shape = "quad"  -> Mul2(r, 1)
      [] o.shape = "well"  -> Mul2(Mul(xi, r), 2)
      [] o.shape = "cubic" -> Mul2(Mul(r, Sub(MulUi(Sqr(xi), 3), o.c)), 1)

objective_function_partial(o, v, i) == PartialOf(o, v[i], Residual(o, v[i]))

objective_gradient(o, v) == [i \in Idx |-> objective_function_partial(o, v, i)]

(***************************************************************************)
(* quadratic_line_search (bfgs_subroutines.cpp), the routine step() calls. *)
(* c holds what is fixed during one call: the objective o, the point xx,   *)
(* its value f and the direction dir.  s holds what the loops change: the  *)
(* step, its value f1, the two scratch vectors t1 and t2 (sw: the pointers *)
(* are exchanged), the count n of doublings, whether a NaN was produced    *)
(* (the MPFR NaN flag) and, for stating properties, the <<step, value>>    *)
(* pairs at which the objective was evaluated.  The result records the     *)
(* returned step (optimal_step_size), the branch taken and the last        *)
(* bracketing step h.                                                      *)
(***************************************************************************)
LSResult(opt, t1, t2, sw, nan, path, h, samples) ==
    [step |-> opt, nan |-> nan, path |-> path, h |-> h, samples |-> samples,
     \* the caller's two scratch vectors
     first |-> IF sw THEN t2 ELSE t1, second |-> IF sw THEN t1 ELSE t2]

\* The objective at xx + t * dir.
SampleAt(c, t, pt) == [t |-> t, pt |-> pt, f |-> objective_function(c.o, pt)]
Sample(c, t) == SampleAt(c, t, set_axpy(t, c.dir, c.xx))
SampleNaN(s, e) == s.nan \/ AnyNaN(e.pt) \/ IsNaN(e.f)

\* Lines 63-72: the vertex of the parabola through (0, f), (h, f1), (2h, f2):
\* (h / 2) * (4*f1 - f2 - 3*f) / (2*f1 - f2 - f).
FitDecreaseFromF1(f, f1, f2, h) ==
    Div(Mul(Div2(h, 1), Sub(Sub(Mul2(f1, 2), f2), MulUi(f, 3))),
        Sub(Sub(Mul2(f1, 1), f2), f1))
FitDecrease(f, f1, f2, h) ==
    Div(Mul(Div2(h, 1), Sub(Sub(Mul2(f1, 2), f2), MulUi(f, 3))),
        Sub(Sub(Mul2(f1, 1), f2), f))

\* Lines 73-77: a fit that is not in (0, 2h) is replaced by h.
GuardPositiveOnly(opt, h) == IF mpfr_sgn(opt) <= 0 THEN h ELSE opt
GuardDecrease(opt, h) ==
    IF mpfr_sgn(opt) <= 0 \/ ~Less(opt, Mul2(h, 1)) THEN h ELSE opt

\* Lines 106-115: the vertex of the parabola through (0, f), (h/2, f2),
\* (h, f1): (h / 4) * (f1 - 4*f2 + 3*f) / (f1 - 2*f2 + f).
FitIncrease(f, f1, f2, h) ==
    Div(Mul(Div2(h, 2), Add(Sub(f1, Mul2(Mul2(f2, 1), 1)), MulUi(f, 3))),
        Add(Sub(f1, Mul2(f2, 1)), f))

\* Lines 116-119: a fit that is not in (0, h) is replaced by h/2.
GuardIncreaseToH(opt, h) ==
    IF mpfr_sgn(opt) <= 0 \/ ~Less(opt, h) THEN h ELSE opt
GuardIncrease(opt, h) ==
    IF mpfr_sgn(opt) <= 0 \/ ~Less(opt, h) THEN Div2(h, 1) ELSE opt

LSKeep(s, e) ==
    [step |-> e.t, f1 |-> e.f, t1 |-> e.pt, t2 |-> s.t1, sw |-> ~s.sw,
     n |-> s.n + 1, nan |-> SampleNaN(s, e),
     samples |-> Append(s.samples, <<e.t, e.f>>)]

LSFitted(s, e, path, raw, opt) ==
    LSResult(opt, s.t1, e.pt, s.sw, SampleNaN(s, e) \/ IsNaN(raw), path,
             s.step, Append(s.samples, <<e.t, e.f>>)) @@ [raw |-> raw]

LSDecreaseFit(c, s, e, raw) ==
    LSFitted(s, e, "decrease", raw, GuardDecrease(raw, s.step))
LSIncreaseFit(c, s, e, raw) ==
    LSFitted(s, e, "increase", raw, GuardIncrease(raw, s.step))

\* Lines 37-77: the doubling loop, then the interpolation.
RECURSIVE LSDouble(_, _)
RECURSIVE LSDoubleAt(_, _, _)
LSDoubleFiveTimes(c, s, e) ==
    IF GreaterEqual(e.f, s.f1)
    THEN LSDecreaseFit(c, s, e, FitDecrease(c.f, s.f1, e.f, s.step))
    ELSE IF s.n + 1 >= 5
    THEN LSResult(e.t, e.pt, s.t1, ~s.sw, SampleNaN(s, e), "cap", e.t,
                  Append(s.samples, <<e.t, e.f>>)) @@ [raw |-> e.t]
    ELSE LSDouble(c, LSKeep(s, e))
LSDoubleAt(c, s, e) ==
    IF GreaterEqual(e.f, s.f1)
    THEN LSDecreaseFit(c, s, e, FitDecrease(c.f, s.f1, e.f, s.step))
    ELSE IF s.n + 1 >= 4
    THEN LSResult(e.t, e.pt, s.t1, ~s.sw, SampleNaN(s, e), "cap", e.t,
                  Append(s.samples, <<e.t, e.f>>)) @@ [raw |-> e.t]
    ELSE LSDouble(c, LSKeep(s, e))
LSDouble(c, s) == LSDoubleAt(c, s, Sample(c, Mul2(s.step, 1)))

\* Lines 79-119: the halving loop, then the interpolation.
RECURSIVE LSHalve(_, _)
RECURSIVE LSHalveAt(_, _, _)
LSHalveUnchecked(c, s, e) ==
    IF Less(e.f, c.f)
    THEN LSIncreaseFit(c, s, e, FitIncrease(c.f, s.f1, e.f, s.step))
    ELSE IF mpfr_zero_p(e.t)
    THEN LSResult(e.t, s.t1, e.pt, s.sw, SampleNaN(s, e), "underflow", e.t,
                  Append(s.samples, <<e.t, e.f>>)) @@ [raw |-> e.t]
    ELSE LSHalve(c, LSKeep(s, e))
LSHalveAt(c, s, e) ==
    IF elementwise_equal(c.xx, e.pt)
    THEN LSResult(Zero, s.t1, e.pt, s.sw, s.nan \/ AnyNaN(e.pt), "zero",
                  s.step, s.samples) @@ [raw |-> Zero]
    ELSE IF Less(e.f, c.f)
    THEN LSIncreaseFit(c, s, e, FitIncrease(c.f, s.f1, e.f, s.step))
    ELSE IF mpfr_zero_p(e.t)
    THEN LSResult(e.t, s.t1, e.pt, s.sw, SampleNaN(s, e), "underflow", e.t,
                  Append(s.samples, <<e.t, e.f>>)) @@ [raw |-> e.t]
    ELSE LSHalve(c, LSKeep(s, e))
LSHalve(c, s) == LSHalveAt(c, s, Sample(c, Div2(s.step, 1)))

LSFirst(c, temp2, e) ==
    IF Less(e.f, c.f)
    THEN LSDouble(c, [step |-> e.t, f1 |-> e.f, t1 |-> e.pt, t2 |-> temp2,
                      sw |-> FALSE, n |-> 0, nan |-> AnyNaN(e.pt) \/ IsNaN(e.f),
                      samples |-> << <<e.t, e.f>> >>])
    ELSE LSHalve(c, [step |-> e.t, f1 |-> e.f, t1 |-> e.pt, t2 |-> temp2,
                     sw |-> FALSE, n |-> 0, nan |-> AnyNaN(e.pt) \/ IsNaN(e.f),
                     samples |-> << <<e.t, e.f>> >>])

LSContext(o, xx, f, dir) == [o |-> o, xx |-> xx, f |-> f, dir |-> dir]

quadratic_line_search(o, temp1, temp2, xx, f, initial_step_size, step_direction) ==
    LSFirst(LSContext(o, xx, f, step_direction), temp2,
            Sample(LSContext(o, xx, f, step_direction), initial_step_size))

(***************************************************************************)
(* QuadraticLineSearcher (QuadraticLineSearcher.hpp).  c is as above (x0,  *)
(* f0 and dx are its xx, f and dir); st is the best <<value, step>> seen   *)
(* so far, with the NaN flag and the samples.                              *)
(***************************************************************************)
\* The constructor: the best value is f0, at step 0.
NewSearcher(f0) ==
    [best_objective_value |-> f0, best_step_size |-> Zero,
     nan |-> FALSE, samples |-> << >>]

\* Lines 78-82: the objective at xt; a strictly smaller value is the new best.
EvaluatedAt(st, t, xt, v) ==
    [t |-> t, value |-> v, changed |-> TRUE,
     st |-> [best_objective_value |->
                 IF Less(v, st.best_objective_value)
                 THEN v ELSE st.best_objective_value,
             best_step_size |->
                 IF Less(v, st.best_objective_value)
                 THEN t ELSE st.best_step_size,
             nan |-> st.nan \/ AnyNaN(xt) \/ IsNaN(v),
             samples |-> Append(st.samples, <<t, v>>)]]

\* Lines 70-77: a point equal to x0 is not evaluated and has the value f0.
EvaluatePoint(c, st, t, xt) ==
    IF elementwise_equal(c.xx, xt)
    THEN [t |-> t, value |-> c.f, changed |-> FALSE, st |-> st]
    ELSE EvaluatedAt(st, t, xt, objective_function(c.o, xt))

evaluate_objective_function(c, st, t) ==
    EvaluatePoint(c, st, t, set_axpy(t, c.dir, c.xx))

SearchResult(st, path, h, raw) ==
    [step |-> st.best_step_size, value |-> st.best_objective_value,
     nan |-> st.nan, path |-> path, h |-> h, raw |-> raw,
     samples |-> st.samples]

\* Lines 107-116: the interpolated step of the decrease path.
SearchFitDecrease(f0, f1, f2, h) ==
    Div(Mul(Div2(h, 1), Sub(Sub(Mul2(f1, 2), f2), MulUi(f0, 3))),
        Sub(Sub(Mul2(f1, 1), f2), f0))

\* Lines 132-141: the interpolated step of the increase path.
SearchFitIncrease(f0, f1, f2, h) ==
    Div(Mul(Div2(h, 2), Add(Sub(f1, Mul2(Mul2(f2, 1), 1)), MulUi(f0, 3))),
        Add(Sub(f1, Mul2(f2, 1)), f0))

\* Lines 117 and 142: the objective at the interpolated step t.
SearchFinal(e, path, h, t) ==
    SearchResult([e.st EXCEPT !.nan = @ \/ IsNaN(t)], path, h, t)

\* Lines 92-117: the doubling loop, then the interpolation.
RECURSIVE SearchDouble(_, _, _, _, _)
RECURSIVE SearchDoubleAt(_, _, _, _, _)
SearchDoubleAt(c, step, f1, n, e) ==
    IF GreaterEqual(e.value, f1)
    THEN SearchFinal(evaluate_objective_function(
                         c, e.st, SearchFitDecrease(c.f, f1, e.value, step)),
                     "decrease", step,
                     SearchFitDecrease(c.f, f1, e.value, step))
    ELSE IF n + 1 >= 4
    THEN SearchResult(e.st, "cap", e.t, e.t)
    ELSE SearchDouble(c, e.st, e.t, e.value, n + 1)
SearchDouble(c, st, step, f1, n) ==
    SearchDoubleAt(c, step, f1, n,
                   evaluate_objective_function(c, st, Mul2(step, 1)))

\* Lines 119-142: the halving loop, then the interpolation.
RECURSIVE SearchHalve(_, _, _, _)
RECURSIVE SearchHalveAt(_, _, _, _)
SearchHalveAt(c, step, f1, e) ==
    IF ~e.changed
    THEN SearchResult(e.st, "zero", step, e.t)
    ELSE IF Less(e.value, c.f)
    THEN SearchFinal(evaluate_objective_function(
                         c, e.st, SearchFitIncrease(c.f, f1, e.value, step)),
                     "increase", step,
                     SearchFitIncrease(c.f, f1, e.value, step))
    ELSE SearchHalve(c, e.st, e.t, e.value)
SearchHalve(c, st, step, f1) ==
    SearchHalveAt(c, step, f1,
                  evaluate_objective_function(c, st, Div2(step, 1)))

SearchFirst(c, e) ==
    IF Less(e.value, c.f)
    THEN SearchDouble(c, e.st, e.t, e.value, 0)
    ELSE SearchHalve(c, e.st, e.t, e.value)

\* QuadraticLineSearcher::search on a searcher just constructed.
search(o, x0, f0, dx, initial_step_size) ==
    SearchFirst(LSContext(o, x0, f0, dx),
                evaluate_objective_function(LSContext(o, x0, f0, dx),
                                            NewSearcher(f0), initial_step_size))

(***************************************************************************)
(* update_inverse_hessian (bfgs_subroutines.cpp).                          *)
(***************************************************************************)
\* Lines 159-166: inv_hess[i][j] += alpha * (kappa[i] * d[j] + d[i] * kappa[j]).
RankTwoUpdate(inv_hess, d, kappa, alpha) ==
    [i \in Idx |-> [j \in Idx |->
        Fma(alpha, Fma(d[i], kappa[j], Mul(kappa[i], d[j])), inv_hess[i][j])]]

\* Lines 153-158: kappa[i] = -(beta * d[i] - kappa[i]); alpha = -step / lambda.
UpdateWithBeta(inv_hess, step, d, kappa, lambda, beta) ==
    RankTwoUpdate(inv_hess, d,
                  [i \in Idx |-> Neg(Fms(beta, d[i], kappa[i]))],
                  Neg(Div(step, lambda)))

\* Lines 141-152: theta = dg . kappa; sigma = (lambda + theta) / lambda^2;
\* beta = step * lambda * sigma / 2.
UpdateWithKappa(inv_hess, dg, step, d, kappa, lambda) ==
    UpdateWithBeta(inv_hess, step, d, kappa, lambda,
                   Div2(Mul(Mul(step, lambda),
                            Div(Add(lambda, dot(dg, kappa)), Sqr(lambda))), 1))

\* Lines 139-144: kappa = inv_hess * dg; lambda = (dg . d) * step.
update_inverse_hessian(inv_hess, delta_gradient, step, step_direction) ==
    UpdateWithKappa(inv_hess, delta_gradient, step, step_direction,
                    matrix_vector_multiply(inv_hess, delta_gradient),
                    Mul(dot(delta_gradient, step_direction), step))

MatrixHasNaN(m) == \E i \in Idx : AnyNaN(m[i])

(***************************************************************************)
(* std::size_t and std::uint64_t: 64-bit unsigned integers, held as four   *)
(* 16-bit limbs, least significant first.                                  *)
(***************************************************************************)
Limb == 2^16
\* The value n, for 0 <= n < 2^31.
U64(n) == <<n % Limb, n \div Limb, 0, 0>>

\* u * b + c modulo 2^64, for small b and c, from limb i on.
RECURSIVE MulAdd(_, _, _, _)
MulAdd(u, b, c, i) ==
    IF i > Len(u) THEN << >>
    ELSE <<(u[i] * b + c) % Limb>> \o MulAdd(u, b, (u[i] * b + c) \div Limb, i + 1)

\* u divided by a small d: the quotient q and the remainder r.
RECURSIVE DivRem(_, _, _, _, _)
DivRem(u, d, i, r, q) ==
    IF i = 0 THEN [q |-> q, r |-> r]
    ELSE DivRem(u, d, i - 1, (r * Limb + u[i]) % d,
                <<(r * Limb + u[i]) \div d>> \o q)
Mod(u, d) == DivRem(u, d, Len(u), 0, << >>).r

\* operator& with 0xFFFF (n = 1), 0xFFFFFFFF (n = 2), 0xFFFFFFFFFFFF (n = 3).
Mask(u, n) == [i \in 1..Len(u) |-> IF i <= n THEN u[i] ELSE 0]

(***************************************************************************)
(* Checkpoint filename helpers (FilenameHelpers.hpp).  A filename is a     *)
(* sequence of one-character strings; position i of the C++ string is      *)
(* element i + 1 of the sequence.                                          *)
(***************************************************************************)
DecChars == <<"0", "1", "2", "3", "4", "5", "6", "7", "8", "9">>
UpperHexChars == DecChars \o <<"A", "B", "C", "D", "E", "F">>
LowerHexChars == DecChars \o <<"a", "b", "c", "d", "e", "f">>
Range(seq) == {seq[i] : i \in 1..Len(seq)}

is_dec_digit(c) == c \in Range(DecChars)
is_hex_digit(c) == c \in Range(UpperHexChars) \cup Range(LowerHexChars)

is_dec_substr(str, begin, end) == \A i \in begin..(end - 1) : is_dec_digit(str[i + 1])
is_hex_substr(str, begin, end) == \A i \in begin..(end - 1) : is_hex_digit(str[i + 1])

is_rktk_filename(filename) ==
    /\ Len(filename) = 68
    /\ is_dec_substr(filename, 0, 4)
    /\ filename[5] = "-"
    /\ is_dec_substr(filename, 5, 9)
    /\ filename[10] = "-"
    /\ filename[11] = "R"
    /\ filename[12] = "K"
    /\ filename[13] = "T"
    /\ filename[14] = "K"
    /\ filename[15] = "-"
    /\ is_hex_substr(filename, 15, 23)
    /\ filename[24] = "-"
    /\ is_hex_substr(filename, 24, 28)
    /\ filename[29] = "-"
    /\ is_hex_substr(filename, 29, 33)
    /\ filename[34] = "-"
    /\ is_hex_substr(filename, 34, 38)
    /\ filename[39] = "-"
    /\ is_hex_substr(filename, 39, 51)
    /\ filename[52] = "-"
    /\ is_dec_substr(filename, 52, 64)
    /\ filename[65] = "."
    /\ filename[66] = "t"
    /\ filename[67] = "x"
    /\ filename[68] = "t"

\* The value of one digit character in the given alphabet(s).
DigitValue(c) ==
    IF c \in Range(UpperHexChars)
    THEN (CHOOSE k \in 1..16 : UpperHexChars[k] = c) - 1
    ELSE (CHOOSE k \in 1..16 : LowerHexChars[k] = c) - 1

\* operator>> into an unsigned integer: the digits of the substring, most
\* significant first.
RECURSIVE DigitsToInt(_, _, _, _, _)
DigitsToInt(str, i, end, base, acc) ==
    IF i >= end THEN acc
    ELSE DigitsToInt(str, i + 1, end, base,
                     MulAdd(acc, base, DigitValue(str[i + 1]), 1))

dec_substr_as_hex(str, begin, end) == DigitsToInt(str, begin, end, 16, U64(0))
dec_substr_to_int(str, begin, end) == DigitsToInt(str, begin, end, 10, U64(0))
hex_substr_as_dec(str, begin, end) == DigitsToInt(str, begin, end, 10, U64(0))
hex_substr_to_int(str, begin, end) == DigitsToInt(str, begin, end, 16, U64(0))

(***************************************************************************)
(* The name write_to_file gives a checkpoint (lines 199-223).              *)
(***************************************************************************)
\* operator<< of an unsigned integer: its digits in the base Len(chars), most
\* significant first, from the quotient and remainder dm of the first division.
RECURSIVE DigitsOf(_, _, _)
DigitsOf(dm, chars, acc) ==
    IF \A i \in 1..Len(dm.q) : dm.q[i] = 0 THEN <<chars[dm.r + 1]>> \o acc
    ELSE DigitsOf(DivRem(dm.q, Len(chars), Len(dm.q), 0, << >>), chars,
                  <<chars[dm.r + 1]>> \o acc)
FormatInt(u, chars) ==
    DigitsOf(DivRem(u, Len(chars), Len(u), 0, << >>), chars, << >>)

\* std::setw(w) with std::setfill('0'): a minimum width; a longer text is
\* left as it is.
RECURSIVE setw(_, _)
setw(w, str) == IF Len(str) >= w THEN str ELSE setw(w, <<"0">> \o str)

\* 10^8 * log10(k) for the mantissas k = 1 .. 31, to the nearest integer.
Log10Table ==
    <<0, 30103000, 47712125, 60205999, 69897000, 77815125, 84509804,
      90308999, 95424251, 100000000, 104139269, 107918125, 111394335,
      114612804, 117609126, 120411998, 123044892, 125527251, 127875360,
      130103000, 132221929, 134242268, 136172784, 138021124, 139794001,
      141497335, 143136376, 144715803, 146239800, 147712125, 149136169>>
\* -100.0L * std::log10(mpfr_get_ld(v)) for a positive finite v = m * 2^e, in
\* millionths (log10(2) = 0.30102999566); the error is below two millionths,
\* and no value of the model comes that close to an integer.
ScoreMicro(v) ==
    -(Log10Table[v.m] + v.e * 30102999 + (v.e * 566) \div 1000)
\* static_cast<int> of a long double in the range of int: truncation toward 0.
Truncate(y) == IF y < 0 THEN -((-y) \div 1000000) ELSE y \div 1000000
Clamp(s) == IF s < 0 THEN 0 ELSE IF s > 9999 THEN 9999 ELSE s
\* Lines 203-210: f_score and g_score.  For v zero, negative, infinite or NaN
\* the product is infinite or NaN, and its conversion to int is undefined: the
\* int it yields is clamped like any other.
Scores(v) ==
    IF IsNum(v) /\ v.m > 0 THEN {Clamp(Truncate(ScoreMicro(v)))}
    ELSE {0, 9999}

\* Lines 211-223: the name, from the scores, the identifier and the counter.
Filename(f_score, g_score, seg, iter) ==
    setw(4, FormatInt(U64(f_score), DecChars)) \o <<"-">>
    \o setw(4, FormatInt(U64(g_score), DecChars))
    \o <<"-", "R", "K", "T", "K", "-">>
    \o setw(8, FormatInt(seg[1], UpperHexChars)) \o <<"-">>
    \o setw(4, FormatInt(seg[2], UpperHexChars)) \o <<"-">>
    \o setw(4, FormatInt(seg[3], UpperHexChars)) \o <<"-">>
    \o setw(4, FormatInt(seg[4], UpperHexChars)) \o <<"-">>
    \o setw(12, FormatInt(seg[5], UpperHexChars)) \o <<"-">>
    \o setw(12, FormatInt(iter, DecChars))
    \o <<".", "t", "x", "t">>

(***************************************************************************)
(* The inputs of a run: the objective, the start point drawn at random or  *)
(* read from a file, the generated RunIdentifier, the name of the file.    *)
(***************************************************************************)
\* uniform_real_distribution(0, 1) draws, rounded to the working precision.
RandomCoords == {Dyadic(1, 3), Dyadic(1, 2), Dyadic(1, 1), Dyadic(3, 2)}
\* Coordinates a resumed file may hold.
FileCoords ==
    {Zero, Dyadic(1, 2), Dyadic(1, 1), ONE, Dyadic(5, 2), Dyadic(11, 3),
     Dyadic(3, 1)}
\* Five successive values of random_engine().
RandomDraws ==
    { <<U64(1), U64(2), U64(3), U64(4), U64(5)>>,
      <<<<255, 4660, 1, 0>>, <<16, 7, 0, 0>>, <<0, 0, 0, 9>>, <<9, 0, 1, 0>>,
        <<4096, 0, 43981, 51966>>>> }
\* Lines 124-128 and 170-174: the draws masked to the five segment widths.
UnmaskedIds(r) == r
MaskIds(r) ==
    <<Mask(r[1], 2), Mask(r[2], 1), Mask(r[3], 1), Mask(r[4], 1), Mask(r[5], 3)>>

ScenarioName ==
    <<"0", "1", "0", "2", "-", "0", "3", "0", "4", "-", "R", "K", "T", "K", "-", "0", "0", "0", "0", "0", "0", "2", "A", "-", "0", "0", "0", "3", "-", "0", "0", "0", "4", "-", "0", "0", "0", "5", "-", "0", "0", "0", "0", "0", "0", "0", "0", "0", "0", "0", "6", "-", "0", "0", "0", "0", "0", "0", "0", "0", "0", "0", "4", "2", ".", "t", "x", "t">>
ResumeName99 ==
    <<"0", "0", "0", "0", "-", "0", "0", "0", "0", "-", "R", "K", "T", "K", "-", "0", "0", "0", "0", "0", "0", "F", "F", "-", "0", "0", "1", "0", "-", "0", "A", "0", "B", "-", "0", "0", "0", "1", "-", "0", "0", "0", "0", "0", "0", "0", "0", "0", "0", "C", "0", "-", "0", "0", "0", "0", "0", "0", "0", "0", "0", "0", "9", "9", ".", "t", "x", "t">>
LowerHexName ==
    <<"0", "0", "0", "7", "-", "0", "0", "0", "9", "-", "R", "K", "T", "K", "-", "0", "0", "0", "0", "0", "0", "2", "a", "-", "0", "0", "0", "b", "-", "0", "0", "0", "4", "-", "0", "0", "0", "5", "-", "0", "0", "0", "0", "0", "0", "0", "0", "0", "0", "1", "f", "-", "0", "0", "0", "0", "0", "0", "0", "0", "0", "1", "9", "8", ".", "t", "x", "t">>
\* ScenarioName with other scores.
RescoredName ==
    <<"9", "8", "7", "6", "-", "0", "0", "0", "0", "-", "R", "K", "T", "K", "-", "0", "0", "0", "0", "0", "0", "2", "A", "-", "0", "0", "0", "3", "-", "0", "0", "0", "4", "-", "0", "0", "0", "5", "-", "0", "0", "0", "0", "0", "0", "0", "0", "0", "0", "0", "6", "-", "0", "0", "0", "0", "0", "0", "0", "0", "0", "0", "4", "2", ".", "t", "x", "t">>
\* The largest iteration counter a name can hold.
LastCountName ==
    <<"0", "0", "0", "0", "-", "0", "0", "0", "0", "-", "R", "K", "T", "K", "-", "0", "0", "0", "0", "0", "0", "F", "F", "-", "0", "0", "1", "0", "-", "0", "A", "0", "B", "-", "0", "0", "0", "1", "-", "0", "0", "0", "0", "0", "0", "0", "0", "0", "0", "C", "0", "-", "9", "9", "9", "9", "9", "9", "9", "9", "9", "9", "9", "9", ".", "t", "x", "t">>
PlainName ==
    <<"s", "t", "a", "r", "t", ".", "t", "x", "t">>
BadLiteralName ==
    <<"0", "1", "0", "2", "-", "0", "3", "0", "4", "-", "R", "K", "T", "X", "-", "0", "0", "0", "0", "0", "0", "2", "A", "-", "0", "0", "0", "3", "-", "0", "0", "0", "4", "-", "0", "0", "0", "5", "-", "0", "0", "0", "0", "0", "0", "0", "0", "0", "0", "0", "6", "-", "0", "0", "0", "0", "0", "0", "0", "0", "0", "0", "4", "2", ".", "t", "x", "t">>

NoInput == [name |-> << >>, matches |-> FALSE, id |-> << >>, iter |-> U64(0)]

\* Each input file name with the RunIdentifier and the iteration counter its
\* text spells (none for a name outside the checkpoint grammar).
InputFiles ==
    { [name |-> ScenarioName, matches |-> TRUE,
       id |-> <<U64(42), U64(3), U64(4), U64(5), U64(6)>>, iter |-> U64(42)],
      [name |-> ResumeName99, matches |-> TRUE,
       id |-> <<U64(255), U64(16), U64(2571), U64(1), U64(192)>>,
       iter |-> U64(99)],
      [name |-> RescoredName, matches |-> TRUE,
       id |-> <<U64(42), U64(3), U64(4), U64(5), U64(6)>>, iter |-> U64(42)],
      [name |-> LastCountName, matches |-> TRUE,
       id |-> <<U64(255), U64(16), U64(2571), U64(1), U64(192)>>,
       iter |-> <<4095, 54437, 232, 0>>],
      [name |-> LowerHexName, matches |-> TRUE,
       id |-> <<U64(42), U64(11), U64(4), U64(5), U64(31)>>, iter |-> U64(198)],
      [name |-> PlainName, matches |-> FALSE, id |-> << >>, iter |-> U64(0)],
      [name |-> BadLiteralName, matches |-> FALSE, id |-> << >>, iter |-> U64(0)] }

(***************************************************************************)
(* State.  The data members of BFGSOptimizer keep their names; the rest is *)
(* the environment of a run and the position of main().                    *)
(***************************************************************************)
VARIABLES
    x, x_new, x_norm, x_new_norm,
    func, func_new,
    grad, grad_new, grad_norm, grad_new_norm, grad_delta,
    step_size, step_size_new, step_dir,
    hess_inv,
    iter_count,
    uuid_seg,        \* <<uuid_seg0, ..., uuid_seg4>>
    nanflag,         \* the MPFR NaN flag (mpfr_nanflag_p)
    obj,             \* the objective function of this run
    input,           \* the file the run resumes from, or "none"
    files,           \* the checkpoints written so far, in order
    pc,              \* the position of main() and of step()
    exit_status,     \* "running", "EXIT_SUCCESS" or "EXIT_FAILURE"
    hist             \* history of the run, for stating properties

optimizer == <<x, x_new, x_norm, x_new_norm, func, func_new,
               grad, grad_new, grad_norm, grad_new_norm, grad_delta,
               step_size, step_size_new, step_dir, hess_inv,
               iter_count, uuid_seg, nanflag>>
vars == <<optimizer, obj, input, files, pc, exit_status, hist>>

\* The fields of the checkpoint that write_to_file derives from the state:
\* the identifier and the iteration counter (in the file name), the point and
\* the four summary lines (in the file body).
write_to_file(f_score, g_score) ==
    [filename |-> Filename(f_score, g_score, uuid_seg, iter_count),
     uuid_seg |-> uuid_seg, iter_count |-> iter_count,
     x |-> x, func |-> func, grad_norm |-> grad_norm,
     step_size |-> step_size, x_norm |-> x_norm]
\* The checkpoints one call of write_to_file can leave.
Checkpoints == {write_to_file(f, g) : f \in Scores(func), g \in Scores(grad_norm)}

\* The retries of one call of step() are counted up to MaxRetries.
Bump(n) == IF n < MaxRetries THEN n + 1 ELSE n

NoHistory ==
    [started |-> FALSE, iter_start |-> U64(0), decreased |-> 0, pre |-> << >>,
     returned |-> "none", resets |-> 0, shrunk |-> 0, reverted |-> 0,
     ls |-> << >>]

\* The default member initializers (lines 58-64): the largest value of the
\* unsigned type.
uint64_max == <<Limb - 1, Limb - 1, Limb - 1, Limb - 1>>
size_max == uint64_max

Init ==
    /\ x = NaNVector /\ x_new = NaNVector
    /\ x_norm = NaN /\ x_new_norm = NaN
    /\ func = NaN /\ func_new = NaN
    /\ grad = NaNVector /\ grad_new = NaNVector
    /\ grad_norm = NaN /\ grad_new_norm = NaN
    /\ grad_delta = NaNVector
    /\ step_size = NaN /\ step_size_new = NaN
    /\ step_dir = NaNVector
    /\ hess_inv = [i \in Idx |-> NaNVector]
    /\ iter_count = size_max
    /\ uuid_seg = <<uint64_max, uint64_max, uint64_max, uint64_max,
                    uint64_max>>
    /\ nanflag = FALSE
    /\ obj \in Objectives
    /\ input = NoInput
    /\ files = << >>
    /\ pc = "main"
    /\ exit_status = "running"
    /\ hist = NoHistory

\* nan_check failing: the diagnostic is printed and the process exits.
Fatal ==
    /\ pc' = "exit"
    /\ exit_status' = "EXIT_FAILURE"

\* The snapshot of the committed state that hist.pre holds during step().
Committed ==
    [x |-> x, x_norm |-> x_norm, func |-> func, grad |-> grad,
     grad_norm |-> grad_norm, step_size |-> step_size,
     iter_count |-> iter_count, uuid_seg |-> uuid_seg]

(***************************************************************************)
(* The initializers.                                                       *)
(***************************************************************************)
\* The assignments both initializers share (lines 117-123, 149-154).
EvaluateAtUnitStep(x0) ==
    /\ x' = x0
    /\ x_norm' = norm(x0)
    /\ func' = objective_function(obj, x0)
    /\ grad' = objective_gradient(obj, x0)
    /\ grad_norm' = norm(objective_gradient(obj, x0))
    /\ step_size' = ONE
    /\ hess_inv' = identity_matrix
    /\ nanflag' = (nanflag \/ AnyNaN(x0) \/ IsNaN(norm(x0))
                    \/ IsNaN(objective_function(obj, x0))
                    \/ AnyNaN(objective_gradient(obj, x0))
                    \/ IsNaN(norm(objective_gradient(obj, x0))))
EvaluateAt(x0) ==
    /\ x' = x0
    /\ x_norm' = norm(x0)
    /\ func' = objective_function(obj, x0)
    /\ grad' = objective_gradient(obj, x0)
    /\ grad_norm' = norm(objective_gradient(obj, x0))
    /\ step_size' = Zero
    /\ hess_inv' = identity_matrix
    /\ nanflag' = (nanflag \/ AnyNaN(x0) \/ IsNaN(norm(x0))
                    \/ IsNaN(objective_function(obj, x0))
                    \/ AnyNaN(objective_gradient(obj, x0))
                    \/ IsNaN(norm(objective_gradient(obj, x0))))

\* main(), lines 72-73: EXPLORE mode.
initialize_random ==
    /\ pc = "main"
    /\ \E x0 \in Starts(RandomCoords), r \in RandomDraws :
          /\ EvaluateAt(x0)
          /\ iter_count' = U64(0)
          /\ uuid_seg' = MaskIds(r)
          /\ hist' = [hist EXCEPT !.started = ~nanflag',
                                  !.iter_start = U64(0)]
    /\ IF nanflag' THEN Fatal ELSE pc' = "start" /\ UNCHANGED exit_status
    /\ UNCHANGED <<x_new, x_new_norm, func_new, grad_new, grad_new_norm,
                   grad_delta, step_size_new, step_dir, obj, input, files>>

\* main(), lines 70-71: REFINE mode, resuming from the file argv[4].
initialize_from_file ==
    /\ pc = "main"
    /\ \E f \in InputFiles, x0 \in Starts(FileCoords), readable \in BOOLEAN :
          /\ input' = f
          /\ IF ~readable
             THEN \* lines 135-138, 141-145: the file cannot be opened or read
                  /\ Fatal
                  /\ UNCHANGED <<optimizer, hist>>
             ELSE /\ EvaluateAt(x0)
                  /\ IF is_rktk_filename(f.name)
                     THEN /\ iter_count' = dec_substr_to_int(f.name, 52, 64)
                          /\ uuid_seg' = <<hex_substr_to_int(f.name, 15, 23),
                                           hex_substr_to_int(f.name, 24, 28),
                                           hex_substr_to_int(f.name, 29, 33),
                                           hex_substr_to_int(f.name, 34, 38),
                                           hex_substr_to_int(f.name, 39, 51)>>
                     ELSE /\ iter_count' = U64(0)
                          /\ \E r \in RandomDraws : uuid_seg' = MaskIds(r)
                  /\ hist' = [hist EXCEPT !.started = TRUE,
                                          !.iter_start = iter_count']
                  /\ pc' = "start"
                  /\ UNCHANGED <<x_new, x_new_norm, func_new, grad_new,
                                 grad_new_norm, grad_delta, step_size_new,
                                 step_dir, exit_status>>
    /\ UNCHANGED <<obj, files>>

\* main(), lines 75-77: the first progress line and the first checkpoint.
WriteStart ==
    /\ pc = "start"
    /\ \E c \in Checkpoints : files' = Append(files, c)
    /\ pc' = "set_step_size"
    /\ UNCHANGED <<optimizer, obj, input, exit_status, hist>>

\* main(), line 78: step_size = 2^-(prec / 2).
set_step_size ==
    /\ pc = "set_step_size"
    /\ step_size' = Div2(ONE, Prec \div 2)
    /\ pc' = "step"
    /\ UNCHANGED <<x, x_new, x_norm, x_new_norm, func, func_new,
                   grad, grad_new, grad_norm, grad_new_norm, grad_delta,
                   step_size_new, step_dir, hess_inv, iter_count, uuid_seg,
                   nanflag, obj, input, files, exit_status, hist>>

\* objective_function_has_decreased() (line 183): func_new < func.
NotIncreased(fn, f) == ~Less(f, fn)
Decreased(fn, f) == Less(fn, f)
objective_function_has_decreased == Decreased(func_new, func)

(***************************************************************************)
(* step(), in three pieces: from its entry to the label after_line_search  *)
(* (lines 249-261), the zero-step test at the label (lines 262-285), and   *)
(* the candidate point with its acceptance test (lines 286-328).           *)
(***************************************************************************)
\* The direction -(hess * grad) / |hess * grad|: raw is the product, n the
\* result of negate_and_normalize (with the scratch value left in func_new).
DirectionOf(raw) == [raw |-> raw, n |-> negate_and_normalize(raw)]
Direction(hess) == DirectionOf(matrix_vector_multiply(hess, grad))
DirectionNaN(d) == AnyNaN(d.raw) \/ IsNaN(d.n.tmp) \/ AnyNaN(d.n.v)

LineSearchFrom(initial, dir) ==
    quadratic_line_search(obj, x_new, grad_new, x, func, initial, dir)

\* Lines 259-261: the line search and the check after it.
StepBeginSearch(d, ls) ==
    /\ step_dir' = d.n.v
    /\ func_new' = d.n.tmp
    /\ step_size_new' = ls.step
    /\ x_new' = ls.first
    /\ grad_new' = ls.second
    /\ nanflag' = ls.nan
    /\ hist' = [hist EXCEPT !.pre = Committed, !.resets = 0, !.shrunk = 0,
                            !.reverted = 0, !.returned = "none", !.ls = ls]
    /\ IF ls.nan
       THEN Fatal     \* nan_check("during quadratic line search")
       ELSE pc' = "after_line_search" /\ UNCHANGED exit_status

\* Lines 249-257: the direction and the checks on it.
StepBeginDirection(d) ==
    IF nanflag
    THEN \* nan_check("before performing BFGS iteration")
         /\ Fatal
         /\ UNCHANGED <<step_dir, func_new, x_new, grad_new, step_size_new,
                        nanflag, hist>>
    ELSE IF AnyNaN(d.raw)
    THEN \* nan_check("during calculation of BFGS step direction")
         /\ Fatal
         /\ step_dir' = d.raw
         /\ nanflag' = TRUE
         /\ UNCHANGED <<func_new, x_new, grad_new, step_size_new, hist>>
    ELSE IF DirectionNaN(d)
    THEN \* nan_check("during normalization of BFGS step direction")
         /\ Fatal
         /\ step_dir' = d.n.v
         /\ func_new' = d.n.tmp
         /\ nanflag' = TRUE
         /\ UNCHANGED <<x_new, grad_new, step_size_new, hist>>
    ELSE StepBeginSearch(d, LineSearchFrom(step_size, d.n.v))

StepBegin ==
    /\ pc = "step"
    /\ StepBeginDirection(Direction(hess_inv))
    /\ UNCHANGED <<x, x_norm, x_new_norm, func, grad, grad_norm, grad_new_norm,
                   grad_delta, step_size, hess_inv, iter_count, uuid_seg,
                   obj, input, files>>

\* Lines 274-282: the candidate slot is made a copy of the current one.
ReturnWithoutObjective ==
    /\ x_new' = x
    /\ x_new_norm' = x_norm
    /\ grad_new' = grad
    /\ grad_new_norm' = grad_norm
    /\ grad_delta' = ZeroVector
    /\ UNCHANGED func_new
ReturnUnchanged ==
    /\ x_new' = x
    /\ x_new_norm' = x_norm
    /\ func_new' = func
    /\ grad_new' = grad
    /\ grad_new_norm' = grad_norm
    /\ grad_delta' = ZeroVector

\* Lines 268-285: the inverse Hessian is reset and the line search repeated;
\* a second zero step is the convergence return.
ResetAndRetry(d, ls) ==
    /\ hess_inv' = identity_matrix
    /\ step_dir' = d.n.v
    /\ step_size_new' = ls.step
    /\ nanflag' = (nanflag \/ DirectionNaN(d) \/ ls.nan)
    /\ IF mpfr_zero_p(ls.step)
       THEN /\ ReturnUnchanged
            /\ pc' = "returned"
            /\ hist' = [hist EXCEPT !.resets = @ + 1, !.ls = ls,
                                    !.returned = "converged"]
       ELSE /\ x_new' = ls.first
            /\ grad_new' = ls.second
            /\ func_new' = d.n.tmp
            /\ pc' = "take_step"
            /\ hist' = [hist EXCEPT !.resets = @ + 1, !.ls = ls]
            /\ UNCHANGED <<x_new_norm, grad_new_norm, grad_delta>>

ResetDirection(d) == ResetAndRetry(d, LineSearchFrom(step_size, d.n.v))

\* The label after_line_search (lines 262-285).
AfterLineSearch ==
    /\ pc = "after_line_search"
    /\ IF mpfr_zero_p(step_size_new)
       THEN ResetDirection(Direction(identity_matrix))
       ELSE /\ pc' = "take_step"
            /\ UNCHANGED <<x_new, x_new_norm, func_new, grad_new, grad_new_norm,
                           grad_delta, step_size_new, step_dir, hess_inv,
                           nanflag, hist>>
    /\ UNCHANGED <<x, x_norm, func, grad, grad_norm, step_size, iter_count,
                   uuid_seg, obj, input, files, exit_status>>

\* Lines 304-307: the failed step becomes the initial step of a new search.
SearchKeepingStepSize(ls) ==
    /\ UNCHANGED step_size
    /\ step_size_new' = ls.step
    /\ x_new' = ls.first
    /\ grad_new' = ls.second
    /\ nanflag' = ls.nan
    /\ hist' = [hist EXCEPT !.ls = ls, !.shrunk = Bump(@)]
    /\ IF ls.nan
       THEN Fatal
       ELSE pc' = "after_line_search" /\ UNCHANGED exit_status
ShrinkAndSearch(ls) ==
    /\ step_size' = step_size_new
    /\ step_size_new' = ls.step
    /\ x_new' = ls.first
    /\ grad_new' = ls.second
    /\ nanflag' = ls.nan
    /\ hist' = [hist EXCEPT !.ls = ls, !.shrunk = Bump(@)]
    /\ IF ls.nan
       THEN Fatal     \* nan_check("during quadratic line search")
       ELSE pc' = "after_line_search" /\ UNCHANGED exit_status

\* Line 312: the step that failed is replaced by the initial step.
RetrySameStep == UNCHANGED step_size_new
RevertStep == step_size_new' = step_size

\* Lines 297-315: the candidate did not decrease the objective.
RejectCommittingStep(xn, xnn, fn) ==
    /\ x_new_norm' = xnn
    /\ func_new' = fn
    /\ IF Less(step_size_new, step_size)
       THEN ShrinkAndSearch(quadratic_line_search(
                obj, xn, grad_new, x, func, step_size_new, step_dir))
       ELSE /\ step_size' = step_size_new
            /\ x_new' = xn
            /\ pc' = "after_line_search"
            /\ hist' = [hist EXCEPT !.reverted = Bump(@)]
            /\ UNCHANGED <<step_size_new, grad_new, nanflag, exit_status>>
    /\ UNCHANGED <<grad_new_norm, grad_delta, hess_inv>>
RejectCandidate(xn, xnn, fn) ==
    /\ x_new_norm' = xnn
    /\ func_new' = fn
    /\ IF Less(step_size_new, step_size)
       THEN ShrinkAndSearch(quadratic_line_search(
                obj, xn, grad_new, x, func, step_size_new, step_dir))
       ELSE /\ RevertStep
            /\ x_new' = xn
            /\ pc' = "after_line_search"
            /\ hist' = [hist EXCEPT !.reverted = Bump(@)]
            /\ UNCHANGED <<step_size, grad_new, nanflag, exit_status>>
    /\ UNCHANGED <<grad_new_norm, grad_delta, hess_inv>>

\* Lines 325-327: the inverse Hessian update and the check after it.
AcceptUnchecked(hn) ==
    /\ hess_inv' = hn
    /\ nanflag' = MatrixHasNaN(hn)
    /\ pc' = "returned"
    /\ hist' = [hist EXCEPT !.decreased = @ + 1, !.returned = "decreased"]
    /\ UNCHANGED exit_status
AcceptUpdate(hn) ==
    /\ hess_inv' = hn
    /\ nanflag' = MatrixHasNaN(hn)
    /\ IF MatrixHasNaN(hn)
       THEN Fatal /\ UNCHANGED hist
       ELSE /\ pc' = "returned"
            /\ hist' = [hist EXCEPT !.decreased = @ + 1,
                                    !.returned = "decreased"]
            /\ UNCHANGED exit_status

\* Lines 316-324: the gradient at the candidate, its norm, the difference.
AcceptGradient(gn, gnn, gd) ==
    /\ grad_new' = gn
    /\ IF AnyNaN(gn)
       THEN /\ Fatal /\ nanflag' = TRUE
            /\ UNCHANGED <<grad_new_norm, grad_delta, hess_inv, hist>>
       ELSE IF IsNaN(gnn)
       THEN /\ Fatal /\ nanflag' = TRUE
            /\ grad_new_norm' = gnn
            /\ UNCHANGED <<grad_delta, hess_inv, hist>>
       ELSE IF AnyNaN(gd)
       THEN /\ Fatal /\ nanflag' = TRUE
            /\ grad_new_norm' = gnn /\ grad_delta' = gd
            /\ UNCHANGED <<hess_inv, hist>>
       ELSE /\ grad_new_norm' = gnn /\ grad_delta' = gd
            /\ AcceptUpdate(update_inverse_hessian(
                   hess_inv, gd, step_size_new, step_dir))

AcceptReversedDelta(xn, xnn, fn, gn) ==
    /\ x_new' = xn /\ x_new_norm' = xnn /\ func_new' = fn
    /\ UNCHANGED <<step_size, step_size_new>>
    /\ AcceptGradient(gn, norm(gn), set_sub(grad, gn))
AcceptCandidate(xn, xnn, fn, gn) ==
    /\ x_new' = xn /\ x_new_norm' = xnn /\ func_new' = fn
    /\ UNCHANGED <<step_size, step_size_new>>
    /\ AcceptGradient(gn, norm(gn), set_sub(gn, grad))

\* Lines 291-297: the norm of the candidate, its objective, the test.
EvaluateCandidate(xn, xnn, fn) ==
    IF IsNaN(xnn)
    THEN \* nan_check("while evaluating norm of new point")
         /\ Fatal /\ nanflag' = TRUE
         /\ x_new' = xn /\ x_new_norm' = xnn
         /\ UNCHANGED <<func_new, grad_new, grad_new_norm, grad_delta,
                        step_size, step_size_new, hess_inv, hist>>
    ELSE IF IsNaN(fn)
    THEN \* nan_check("during evaluation of objective function at new point")
         /\ Fatal /\ nanflag' = TRUE
         /\ x_new' = xn /\ x_new_norm' = xnn /\ func_new' = fn
         /\ UNCHANGED <<grad_new, grad_new_norm, grad_delta,
                        step_size, step_size_new, hess_inv, hist>>
    ELSE IF ~Decreased(fn, func)
    THEN RejectCandidate(xn, xnn, fn)
    ELSE AcceptCandidate(xn, xnn, fn, objective_gradient(obj, xn))

\* Lines 287-290: the candidate x + step_size_new * step_dir.
CandidateAt(xn) ==
    IF nanflag \/ AnyNaN(xn)
    THEN \* nan_check("while taking BFGS step")
         /\ Fatal /\ nanflag' = TRUE
         /\ x_new' = xn
         /\ UNCHANGED <<x_new_norm, func_new, grad_new, grad_new_norm,
                        grad_delta, step_size, step_size_new, hess_inv, hist>>
    ELSE EvaluateCandidate(xn, norm(xn), objective_function(obj, xn))

\* Lines 286-328: a candidate that does not decrease the objective sends
\* step() back to the label; one that does has its gradient evaluated and
\* updates the inverse Hessian, and step() returns.
TakeStep ==
    /\ pc = "take_step"
    /\ CandidateAt(set_axpy(step_size_new, step_dir, x))
    /\ UNCHANGED <<x, x_norm, func, grad, grad_norm, step_dir, iter_count,
                   uuid_seg, obj, input, files>>


(***************************************************************************)
(* main(), lines 81-95: after step() returns.                              *)
(***************************************************************************)
\* Lines 81-86: no decrease; the final checkpoint, then EXIT_SUCCESS.
Converged ==
    /\ pc = "returned"
    /\ ~objective_function_has_decreased
    /\ \E c \in Checkpoints : files' = Append(files, c)
    /\ pc' = "exit"
    /\ exit_status' = "EXIT_SUCCESS"
    /\ UNCHANGED <<optimizer, obj, input, hist>>

\* shift(), line by line (lines 331-337).
SwapPoint == x' = x_new /\ x_new' = x
CommitObjective == func' = func_new

KeepGradient == UNCHANGED <<grad, grad_new>>
SwapGradient == grad' = grad_new /\ grad_new' = grad

KeepStepSize == UNCHANGED step_size
CommitStepSize == step_size' = step_size_new

CountTwice == iter_count' = MulAdd(iter_count, 1, 2, 1)
CountIteration == iter_count' = MulAdd(iter_count, 1, 1, 1)

\* Line 87: shift() commits the candidate.
shift ==
    /\ pc = "returned"
    /\ objective_function_has_decreased
    /\ SwapPoint
    /\ x_norm' = x_new_norm
    /\ CommitObjective
    /\ SwapGradient
    /\ grad_norm' = grad_new_norm
    /\ CommitStepSize
    /\ CountIteration
    /\ pc' = "shifted"
    /\ UNCHANGED <<x_new_norm, func_new, grad_new_norm, grad_delta,
                   step_size_new, step_dir, hess_inv, uuid_seg, nanflag,
                   obj, input, files, exit_status, hist>>

\* Lines 88-90: the periodic checkpoint.
CheckpointPeriod == 100

CheckpointAlways == TRUE
CheckpointEveryOther == Mod(iter_count, 2 * CheckpointPeriod) = 0
CheckpointDue == Mod(iter_count, CheckpointPeriod) = 0

PeriodicCheckpoint ==
    /\ pc = "shifted"
    /\ IF CheckpointDue THEN \E c \in Checkpoints : files' = Append(files, c)
       ELSE files' = files
    /\ pc' = "step"
    /\ UNCHANGED <<optimizer, obj, input, exit_status, hist>>

Next ==
    \/ initialize_random
    \/ initialize_from_file
    \/ WriteStart
    \/ set_step_size
    \/ StepBegin
    \/ AfterLineSearch
    \/ TakeStep
    \/ Converged
    \/ shift
    \/ PeriodicCheckpoint

Spec == Init /\ [][Next]_vars

\* The labels of the driver and of step().
Labels ==
    {"main", "start", "set_step_size", "step", "after_line_search",
     "take_step", "returned", "shifted", "exit"}

\* The process keeps executing: control does not rest at a label other than
\* exit.  Every step of Next moves pc, and Next can take a step at every label
\* but exit, so this is weak fairness of Next.
Running == pc # "exit" /\ \E l \in Labels \ {pc} : pc' = l

FairSpec == Spec /\ WF_pc(Running)

(***************************************************************************)
(* The two line searches on their own: a point, a direction and an initial *)
(* step are chosen, quadratic_line_search is applied, and then             *)
(* QuadraticLineSearcher::search on the same input.                        *)
(***************************************************************************)
LSCoords == {Zero, ONE, Dyadic(-3, 3), Dyadic(-15, 3)}
LSDirs == {Zero, ONE, Dyadic(5, 4)}
LSSteps == {Dyadic(1, 4), ONE, FromInt(4)}
\* A line search close to a minimum, where the values sampled differ by
\* little more than their rounding error.
LSNearMinimum ==
    [x |-> [i \in Idx |-> IF i = 2 THEN Dyadic(-1, 11) ELSE Dyadic(1, 13)],
     dir |-> [i \in Idx |-> IF i = 2 THEN Dyadic(7, 3) ELSE Dyadic(-1, 1)],
     step |-> Dyadic(5, 9)]

InitLS ==
    /\ obj \in Objectives
    /\ \/ /\ x \in Starts(LSCoords)
          /\ step_dir \in Starts(LSDirs)
          /\ step_size \in LSSteps
       \/ /\ x = LSNearMinimum.x
          /\ step_dir = LSNearMinimum.dir
          /\ step_size = LSNearMinimum.step
    /\ func = objective_function(obj, x)
    /\ x_norm = norm(x)
    /\ grad = objective_gradient(obj, x)
    /\ grad_norm = norm(grad)
    /\ x_new = NaNVector /\ x_new_norm = NaN /\ func_new = NaN
    /\ grad_new = NaNVector /\ grad_new_norm = NaN /\ grad_delta = NaNVector
    /\ step_size_new = NaN
    /\ hess_inv = identity_matrix
    /\ iter_count = U64(0)
    /\ uuid_seg = <<U64(1), U64(2), U64(3), U64(4), U64(5)>>
    /\ nanflag = FALSE
    /\ input = NoInput
    /\ files = << >>
    /\ pc = "line_search"
    /\ exit_status = "running"
    /\ hist = [ls |-> << >>, qs |-> << >>]

\* quadratic_line_search as step() calls it (line 259).
ApplyLineSearch(ls) ==
    /\ step_size_new' = ls.step
    /\ x_new' = ls.first
    /\ grad_new' = ls.second
    /\ nanflag' = ls.nan
    /\ hist' = [hist EXCEPT !.ls = ls]

LineSearchRoutine ==
    /\ pc = "line_search"
    /\ ApplyLineSearch(LineSearchFrom(step_size, step_dir))
    /\ pc' = "searcher"
    /\ UNCHANGED <<x, x_norm, x_new_norm, func, func_new, grad, grad_norm,
                   grad_new_norm, grad_delta, step_size, step_dir, hess_inv,
                   iter_count, uuid_seg, obj, input, files, exit_status>>

\* QuadraticLineSearcher: final_objective_value and final_step_size are
\* func_new and step_size_new.
ApplySearch(qs) ==
    /\ func_new' = qs.value
    /\ step_size_new' = qs.step
    /\ nanflag' = qs.nan
    /\ hist' = [hist EXCEPT !.qs = qs]

LineSearcherSearch ==
    /\ pc = "searcher"
    /\ ApplySearch(search(obj, x, func, step_dir, step_size))
    /\ pc' = "searched"
    /\ UNCHANGED <<x, x_new, x_norm, x_new_norm, func, grad, grad_new,
                   grad_norm, grad_new_norm, grad_delta, step_size, step_dir,
                   hess_inv, iter_count, uuid_seg, obj, input, files,
                   exit_status>>

NextLS ==
    \/ LineSearchRoutine
    \/ LineSearcherSearch

SpecLS == InitLS /\ [][NextLS]_vars

(***************************************************************************)
(* main() over a long run (rksearch_main.cpp, lines 75-96).  The loop      *)
(* reads one thing from step(): whether the candidate it left decreased    *)
(* the objective.  Here step() is followed only that far: each call either *)
(* leaves a candidate whose value is the next number below func, or leaves *)
(* no decrease; the candidate's point is not followed and stays at x.      *)
(* step() changes neither iter_count nor the files (C22), and the runs of  *)
(* the objectives above end within a few accepted steps, far fewer than    *)
(* one checkpoint period.                                                  *)
(***************************************************************************)
\* The accepted steps of one run are counted up to MaxAccepted.
MaxAccepted == 101

\* The largest number below a positive finite f (f itself where there is none
\* in the exponent range).
NextBelow(f) ==
    IF ~IsNum(f) \/ f.m <= 0 THEN f
    ELSE IF f.m > Pow2(Prec - 1) THEN [m |-> f.m - 1, e |-> f.e]
    ELSE IF Finite(Pow2(Prec) - 1, f.e - 1) = Zero THEN f
    ELSE Finite(Pow2(Prec) - 1, f.e - 1)

StepOutcome(fn) ==
    /\ func_new' = fn
    /\ x_new' = x /\ x_new_norm' = x_norm
    /\ grad_new' = grad /\ grad_new_norm' = grad_norm
    /\ step_size_new' = step_size
    /\ hist' = [hist EXCEPT
                   !.decreased = IF Decreased(fn, func) THEN @ + 1 ELSE @,
                   !.returned = IF Decreased(fn, func) THEN "decreased"
                                ELSE "converged"]

\* Line 80: step() returns, with or without a decrease.
StepReturns ==
    /\ pc = "step"
    /\ \/ /\ hist.decreased < MaxAccepted
          /\ Decreased(NextBelow(func), func)
          /\ StepOutcome(NextBelow(func))
       \/ StepOutcome(func)
    /\ pc' = "returned"
    /\ UNCHANGED <<x, x_norm, func, grad, grad_norm, grad_delta, step_size,
                   step_dir, hess_inv, iter_count, uuid_seg, nanflag,
                   obj, input, files, exit_status>>

\* One objective is enough for the driver.
InitMain == Init /\ obj = [shape |-> "quad", c |-> ONE]

NextMain ==
    \/ initialize_random
    \/ initialize_from_file
    \/ WriteStart
    \/ set_step_size
    \/ StepReturns
    \/ Converged
    \/ shift
    \/ PeriodicCheckpoint

SpecMain == InitMain /\ [][NextMain]_vars

(***************************************************************************)
(* A client of BFGSOptimizer that calls step() right after an initializer, *)
(* without set_step_size(): main() without its line 78.                    *)
(***************************************************************************)
SkipStepSize ==
    /\ pc = "set_step_size"
    /\ pc' = "step"
    /\ UNCHANGED <<optimizer, obj, input, files, exit_status, hist>>

NextNoStepSize ==
    \/ initialize_random
    \/ initialize_from_file
    \/ WriteStart
    \/ SkipStepSize
    \/ StepBegin
    \/ AfterLineSearch
    \/ Converged

SpecNoStepSize == Init /\ [][NextNoStepSize]_vars

(***************************************************************************)
(* Properties.                                                             *)
(***************************************************************************)
\* An initializer has run to its end and returned.
Initialized == hist.started

\* C1: once an initializer has run, in every state of the run (so whenever
\* the optimizer is ready for step(), and after every shift()) func is the
\* objective at the current point x and grad is the gradient at x.
C1_ObjectiveAndGradientMatchPoint ==
    Initialized =>
        /\ func = objective_function(obj, x)
        /\ grad = objective_gradient(obj, x)

\* C1 witness: a run has shifted twice, away from its initial point.
C1_Witness ==
    /\ pc = "step"
    /\ iter_count = MulAdd(hist.iter_start, 1, 2, 1)
    /\ x # files[1].x
    /\ func = objective_function(obj, x)
    /\ grad = objective_gradient(obj, x)

\* The step() calls that returned a decrease and are not yet committed.
Uncommitted ==
    IF pc = "returned" /\ hist.returned = "decreased" THEN 1 ELSE 0

\* C2: iter_count changes only in shift(), by exactly one; no step of step()
\* changes it; in every state it is the initial value plus the number of
\* accepted steps committed so far.
C2_IterationCounter ==
    /\ [](Initialized =>
            iter_count = MulAdd(hist.iter_start, 1,
                                hist.decreased - Uncommitted, 1))
    /\ [][pc # "main" =>
            IF pc = "returned" /\ pc' = "shifted"
            THEN iter_count' = MulAdd(iter_count, 1, 1, 1)
            ELSE iter_count' = iter_count]_vars

\* C2 witness: after an accepted step, a later step() went through a rejected
\* candidate and one through the convergence return, the counter unchanged.
C2_Witness ==
    /\ pc = "returned"
    /\ hist.returned = "converged"
    /\ hist.decreased >= 1
    /\ iter_count = MulAdd(hist.iter_start, 1, hist.decreased, 1)

\* C3: at the convergence return (a zero step, the reset, a zero step again)
\* the candidate is a copy of the current point, the objective has not
\* decreased, and x, func and grad are what they were when step() was called.
C3_ConvergenceReturn ==
    (pc = "returned" /\ hist.returned = "converged") =>
        /\ x_new = x /\ func_new = func /\ grad_new = grad
        /\ ~objective_function_has_decreased
        /\ hess_inv = identity_matrix
        /\ x = hist.pre.x /\ func = hist.pre.func /\ grad = hist.pre.grad

\* C3 witness: step() returned through the convergence return after the
\* reset, with the candidate slot overwritten by the searches before it.
C3_Witness ==
    /\ pc = "returned"
    /\ hist.returned = "converged"
    /\ hist.resets = 1
    /\ mpfr_zero_p(step_size_new)
    /\ x_new = x

\* How a call of step() ends.
StepEnded ==
    \/ pc = "returned" /\ hist.returned = "decreased" /\ Less(func_new, func)
    \/ pc = "returned" /\ hist.returned = "converged"
    \/ pc = "exit" /\ exit_status = "EXIT_FAILURE"

\* C4: every call of step() ends: with a candidate strictly below func, with
\* the convergence return, or with a fatal fault.
C4_StepTerminates == (pc = "step") ~> StepEnded

\* C4 witness: a call that went round the retry loop, through a rejected
\* candidate, a shrunken search and the reset, has ended.
C4_Witness ==
    /\ pc = "returned"
    /\ hist.shrunk >= 1
    /\ hist.resets >= 1
    /\ StepEnded

\* C5: shift() is called only right after a step() with func_new < func, and
\* the objective value it commits is strictly below the one committed before.
C5_ShiftOnlyAfterDecrease ==
    [][pc' = "shifted" =>
          /\ pc = "returned"
          /\ hist.returned = "decreased"
          /\ Less(func_new, func)
          /\ Less(func', func)]_vars

\* C5 witness: the second shift() of a run, its value below the earlier ones.
C5_Witness ==
    /\ pc = "shifted"
    /\ hist.decreased = 2
    /\ Less(func, hist.pre.func)
    /\ Less(hist.pre.func, files[1].func)

\* C6: shift() makes the candidate of the preceding step() current: func,
\* x, grad, grad_norm and step_size become func_new, x_new, grad_new,
\* grad_new_norm and step_size_new; hess_inv and uuid_seg are untouched.
C6_ShiftCommitsCandidate ==
    [][(pc = "returned" /\ pc' = "shifted") =>
          /\ func' = func_new
          /\ x' = x_new
          /\ grad' = grad_new
          /\ grad_norm' = grad_new_norm
          /\ step_size' = step_size_new
          /\ hess_inv' = hess_inv
          /\ uuid_seg' = uuid_seg]_vars

\* C6 witness: just after a shift() whose step size differs from the one
\* before; x_new now holds the point that was current.
C6_Witness ==
    /\ pc = "shifted"
    /\ func = func_new
    /\ step_size = step_size_new
    /\ step_size # hist.pre.step_size
    /\ x_new = hist.pre.x
    /\ x # x_new

\* The objective at the step a line search returned.
ValueAt(t) == objective_function(obj, set_axpy(t, step_dir, x))
NoSampleBelow(samples, v) ==
    \A i \in 1..Len(samples) : ~Less(samples[i][2], v)

\* C7, for QuadraticLineSearcher::search: the <<value, step>> returned is the
\* best one seen, and no sampled value is below it.
SearcherReturnsBest ==
    pc = "searched" =>
        /\ NoSampleBelow(hist.qs.samples, hist.qs.value)
        /\ ~Less(func, hist.qs.value)
        /\ \/ mpfr_zero_p(hist.qs.step) /\ hist.qs.value = func
           \/ \E i \in 1..Len(hist.qs.samples) :
                 hist.qs.samples[i] = <<hist.qs.step, hist.qs.value>>

\* C7, for quadratic_line_search: the objective at the returned step is not
\* above any value sampled during the call.
RoutineReturnsBest ==
    (pc = "searched" /\ ~hist.ls.nan) =>
        NoSampleBelow(hist.ls.samples, ValueAt(hist.ls.step))

\* C7: in both implementations the step returned has an objective value that
\* does not exceed the value of any point sampled during the call.
C7_ReturnedStepIsBestSampled == SearcherReturnsBest /\ RoutineReturnsBest

\* C7 witness of the divergence: quadratic_line_search returns a fitted step
\* whose objective is above a sampled value, and even above func.
C7_Witness ==
    /\ pc = "searched"
    /\ ~hist.ls.nan
    /\ hist.ls.path = "decrease"
    /\ Less(hist.ls.samples[1][2], ValueAt(hist.ls.step))
    /\ Less(func, ValueAt(hist.ls.step))
    /\ NoSampleBelow(hist.qs.samples, hist.qs.value)

\* The decrease path ended with the interpolation (not with the cap).
RoutineFitted == pc = "searched" /\ ~hist.ls.nan /\ hist.ls.path = "decrease"
SearcherFitted == pc = "searched" /\ ~hist.qs.nan /\ hist.qs.path = "decrease"

\* C8 as claimed: in the decrease path the selected step is strictly between
\* h and 2h.
C8_StepBetweenHAnd2H ==
    /\ RoutineFitted =>
          /\ Less(hist.ls.h, hist.ls.step)
          /\ Less(hist.ls.step, Mul2(hist.ls.h, 1))
    /\ SearcherFitted =>
          /\ Less(hist.qs.h, hist.qs.step)
          /\ Less(hist.qs.step, Mul2(hist.qs.h, 1))

\* C8 as amended: in the decrease path quadratic_line_search returns a step
\* strictly between 0 and 2h, the fit if it lies there and h otherwise, and
\* QuadraticLineSearcher::search selects h or the fitted step.
C8_StepBetween0And2H ==
    /\ RoutineFitted =>
          /\ Less(Zero, hist.ls.step)
          /\ Less(hist.ls.step, Mul2(hist.ls.h, 1))
          /\ hist.ls.step \in {hist.ls.raw, hist.ls.h}
    /\ SearcherFitted => hist.qs.step \in {hist.qs.raw, hist.qs.h}

\* C8 witness: the scenario h = 4, f0 = 1 with the overshoot at 8; the fit is
\* below 4 and is what both implementations select.
C8_Witness ==
    /\ RoutineFitted /\ SearcherFitted
    /\ func = ONE
    /\ hist.ls.h = FromInt(4)
    /\ Len(hist.ls.samples) = 4
    /\ hist.ls.step = hist.ls.raw
    /\ Less(hist.ls.step, hist.ls.h)
    /\ hist.qs.step = hist.ls.step

\* The number of multiples of CheckpointPeriod among a+1 .. a+k.
Multiples(a, k) ==
    Cardinality({j \in 1..k : Mod(MulAdd(a, 1, j, 1), CheckpointPeriod) = 0})

\* The checkpoints a run has written when it is past the first one.
CheckpointsDue ==
    1 + Multiples(hist.iter_start, hist.decreased - Uncommitted)
      - (IF pc = "shifted" /\ Mod(iter_count, CheckpointPeriod) = 0
         THEN 1 ELSE 0)
      + (IF exit_status = "EXIT_SUCCESS" THEN 1 ELSE 0)

\* C9: one checkpoint at the start, before the first step(); one after each
\* shift() that makes iter_count a multiple of 100 and after no other; one at
\* convergence, and EXIT_SUCCESS only with that last checkpoint written.
C9_Checkpoints ==
    /\ pc \in {"main", "start"} => files = << >>
    /\ (Initialized /\ pc \notin {"main", "start"}) =>
          /\ Len(files) = CheckpointsDue
          /\ files[1].iter_count = hist.iter_start
          /\ \A k \in 2..Len(files) :
                \/ Mod(files[k].iter_count, CheckpointPeriod) = 0
                \/ k = Len(files) /\ exit_status = "EXIT_SUCCESS"
    /\ exit_status = "EXIT_SUCCESS" =>
          /\ Len(files) >= 2
          /\ files[Len(files)] \in Checkpoints

\* C9 witness: a run that wrote the first checkpoint, one at iteration 100
\* or 200, and the last one, and exited with success.
C9_Witness ==
    /\ exit_status = "EXIT_SUCCESS"
    /\ Len(files) = 3
    /\ Mod(files[2].iter_count, CheckpointPeriod) = 0
    /\ files[3].iter_count # files[2].iter_count

\* C10: after the initializer no step changes uuid_seg, every checkpoint
\* carries it, and a run resumed from a matching filename has the identifier
\* of that filename.
C10_RunIdentifierStable ==
    /\ [](\A k \in 1..Len(files) : files[k].uuid_seg = uuid_seg)
    /\ []((Initialized /\ input.matches) => uuid_seg = input.id)
    /\ [][pc # "main" => uuid_seg' = uuid_seg]_vars

\* C10 witness: a resumed run with two checkpoints under the identifier of
\* its input file.
C10_Witness ==
    /\ input.matches
    /\ Len(files) >= 2
    /\ uuid_seg = input.id
    /\ files[1].uuid_seg = input.id
    /\ files[Len(files)].uuid_seg = input.id

(***************************************************************************)
(* Checkpoint names: C11, C12, C13, C17, C18.                              *)
(***************************************************************************)
\* The name decodes to the identifier seg and to the counter iter.
DecodesTo(name, seg, iter) ==
    /\ dec_substr_to_int(name, 52, 64) = iter
    /\ hex_substr_to_int(name, 15, 23) = seg[1]
    /\ hex_substr_to_int(name, 24, 28) = seg[2]
    /\ hex_substr_to_int(name, 29, 33) = seg[3]
    /\ hex_substr_to_int(name, 34, 38) = seg[4]
    /\ hex_substr_to_int(name, 39, 51) = seg[5]

\* C11: in every state after the initializer, the name write_to_file builds
\* (and so the name of every checkpoint written) is accepted by
\* is_rktk_filename and decodes to the iteration counter and the five
\* identifier segments it was built from.
C11_FilenameRoundTrip ==
    /\ Initialized =>
          \A c \in Checkpoints :
              /\ is_rktk_filename(c.filename)
              /\ DecodesTo(c.filename, uuid_seg, iter_count)
    /\ \A k \in 1..Len(files) :
          /\ is_rktk_filename(files[k].filename)
          /\ DecodesTo(files[k].filename, files[k].uuid_seg, files[k].iter_count)

\* C11 witness: a checkpoint was written whose name is not accepted.
C11_Witness ==
    /\ Len(files) >= 2
    /\ ~is_rktk_filename(files[Len(files)].filename)
    /\ Len(files[Len(files)].filename) = 69
    /\ is_rktk_filename(files[1].filename)
    /\ DecodesTo(files[1].filename, files[1].uuid_seg, files[1].iter_count)

\* The checkpoint filename grammar, as the specification states it:
\* FFFF-GGGG-RKTK-AAAAAAAA-BBBB-CCCC-DDDD-EEEEEEEEEEEE-NNNNNNNNNNNN.txt with
\* decimal F, G, N and uppercase hexadecimal A .. E.
FieldOf(name, begin, end, chars) ==
    \A i \in (begin + 1)..end : name[i] \in Range(chars)
MatchesGrammar(name) ==
    /\ Len(name) = 68
    /\ FieldOf(name, 0, 4, DecChars)
    /\ FieldOf(name, 5, 9, DecChars)
    /\ SubSeq(name, 10, 15) = <<"-", "R", "K", "T", "K", "-">>
    /\ FieldOf(name, 15, 23, UpperHexChars)
    /\ FieldOf(name, 24, 28, UpperHexChars)
    /\ FieldOf(name, 29, 33, UpperHexChars)
    /\ FieldOf(name, 34, 38, UpperHexChars)
    /\ FieldOf(name, 39, 51, UpperHexChars)
    /\ FieldOf(name, 52, 64, DecChars)
    /\ \A i \in {5, 24, 29, 34, 39, 52} : name[i] = "-"
    /\ SubSeq(name, 65, 68) = <<".", "t", "x", "t">>

\* Score fields to put in the place of a name's own.
ScoreTexts ==
    {<<"0", "0", "0", "0">>, <<"1", "2", "3", "4">>, <<"9", "9", "9", "9">>}
WithScores(name, f, g) == f \o <<"-">> \o g \o SubSeq(name, 10, Len(name))

\* C12: after initialize_from_file on a name that matches the grammar, the
\* iteration counter is the decimal value of the 12-digit field and the
\* segments are the hexadecimal values of the five groups (42 and 2A, 3, 4,
\* 5, 6 for the name of the scenario); a name with other score fields is
\* accepted and decoded alike.
C12_ResumeRecoversMetadata ==
    /\ (pc = "start" /\ MatchesGrammar(input.name)) =>
          /\ iter_count = input.iter
          /\ uuid_seg = input.id
    /\ (pc = "start" /\ input.name = ScenarioName) =>
          /\ iter_count = <<42, 0, 0, 0>>
          /\ uuid_seg = <<<<42, 0, 0, 0>>, <<3, 0, 0, 0>>, <<4, 0, 0, 0>>,
                          <<5, 0, 0, 0>>, <<6, 0, 0, 0>>>>
    /\ (pc = "start" /\ MatchesGrammar(input.name)) =>
          \A f, g \in ScoreTexts :
              /\ is_rktk_filename(WithScores(input.name, f, g))
              /\ DecodesTo(WithScores(input.name, f, g), uuid_seg, iter_count)

\* C12 witness: the run resumed from the name of the scenario is at
\* iteration 42 under the identifier 2A-3-4-5-6.
C12_Witness ==
    /\ pc = "start"
    /\ input.name = ScenarioName
    /\ MatchesGrammar(input.name)
    /\ iter_count = <<42, 0, 0, 0>>
    /\ uuid_seg[1] = <<42, 0, 0, 0>>

\* An identifier initialize_random or a non-matching resume can generate.
FreshIds == {MaskIds(r) : r \in RandomDraws}

\* C13: is_rktk_filename accepts exactly the names of the grammar, and a run
\* resumed from any other name starts at iteration 0 with a generated
\* identifier.
C13_AcceptsExactlyTheGrammar ==
    /\ input # NoInput =>
          (is_rktk_filename(input.name) <=> MatchesGrammar(input.name))
    /\ (pc = "start" /\ input # NoInput /\ ~MatchesGrammar(input.name)) =>
          /\ iter_count = <<0, 0, 0, 0>>
          /\ uuid_seg \in FreshIds

\* C13 witness: a run resumed from a name with lowercase hexadecimal digits,
\* which the grammar excludes, has taken the counter and the identifier from it.
C13_Witness ==
    /\ pc = "start"
    /\ input.name = LowerHexName
    /\ ~MatchesGrammar(input.name)
    /\ is_rktk_filename(input.name)
    /\ iter_count = <<198, 0, 0, 0>>
    /\ uuid_seg = <<<<42, 0, 0, 0>>, <<11, 0, 0, 0>>, <<4, 0, 0, 0>>,
                    <<5, 0, 0, 0>>, <<31, 0, 0, 0>>>>

\* The integer nearest to y millionths.
RoundNearest(y) == (y + 500000) \div 1000000
\* The score the specification states for a positive finite v.
RoundedScore(v) == U64(Clamp(RoundNearest(ScoreMicro(v))))
Scored(v) == IsNum(v) /\ v.m > 0

\* C17: in every checkpoint name both score fields are 4 decimal digits, and
\* the field is clamp(round(-100 * log10(v)), 0, 9999) for v the objective
\* value (first field) and the gradient norm (second field).
C17_ScoresAreRounded ==
    \A k \in 1..Len(files) :
        /\ is_dec_substr(files[k].filename, 0, 4)
        /\ files[k].filename[5] = "-"
        /\ is_dec_substr(files[k].filename, 5, 9)
        /\ files[k].filename[10] = "-"
        /\ Scored(files[k].func) =>
              dec_substr_to_int(files[k].filename, 0, 4)
                  = RoundedScore(files[k].func)
        /\ Scored(files[k].grad_norm) =>
              dec_substr_to_int(files[k].filename, 5, 9)
                  = RoundedScore(files[k].grad_norm)

\* C17 witness: a checkpoint whose first score is the truncation of
\* -100 * log10(func) and not the nearest integer.
C17_Witness ==
    /\ Len(files) >= 1
    /\ Scored(files[1].func)
    /\ dec_substr_to_int(files[1].filename, 0, 4)
          = U64(Clamp(Truncate(ScoreMicro(files[1].func))))
    /\ dec_substr_to_int(files[1].filename, 0, 4) # RoundedScore(files[1].func)

\* u is below 2^(16 * n): only its n low limbs are set.
Below2To16(u, n) == \A i \in (n + 1)..Len(u) : u[i] = 0

Symmetric(mat) == \A i, j \in Idx : mat[i][j] = mat[j][i]

\* C14: the inverse Hessian is symmetric in every state: after the reset to
\* the identity and after every call of update_inverse_hessian.
C14_HessianSymmetric == Symmetric(hess_inv)

\* C14 witness: step() has returned from an update of the identity that left
\* finite entries with hess_inv[1][2] different from hess_inv[2][1].
C14_Witness ==
    /\ pc = "returned"
    /\ hist.returned = "decreased"
    /\ hist.decreased = 1
    /\ ~MatrixHasNaN(hess_inv)
    /\ \A i, j \in Idx : IsNum(hess_inv[i][j])
    /\ hess_inv[1][2] # hess_inv[2][1]
    /\ hess_inv = update_inverse_hessian(identity_matrix, grad_delta,
                                         step_size_new, step_dir)

\* C19: in one call of step() the inverse Hessian is reset to the identity at
\* most once, and the convergence return follows exactly one reset.
C19_ResetAtMostOnce ==
    /\ hist.resets <= 1
    /\ (pc = "returned" /\ hist.returned = "converged") => hist.resets = 1

\* C19 witness: step() has made the convergence return after resetting the
\* inverse Hessian twice in the call, with a shrunk line search in between.
C19_Witness ==
    /\ pc = "returned"
    /\ hist.returned = "converged"
    /\ hist.resets = 2
    /\ hist.shrunk >= 1
    /\ hess_inv = identity_matrix

StepLabels == {"step", "after_line_search", "take_step"}

\* C20: step() calls update_inverse_hessian only when the candidate's
\* objective is strictly below func, once, with grad_new - grad, the step size
\* and the direction that produced the candidate; a rejected candidate and the
\* convergence return leave the inverse Hessian without an update, so every
\* return with a strict decrease stands for exactly one update.
C20_UpdateOnlyOnDecrease ==
    [][/\ (pc = "take_step" /\ pc' = "returned") =>
              /\ hist'.returned = "decreased"
              /\ hist'.decreased = hist.decreased + 1
              /\ Less(func_new', func)
              /\ step_size_new' = step_size_new
              /\ x_new' = set_axpy(step_size_new, step_dir, x)
              /\ func_new' = objective_function(obj, x_new')
              /\ grad_delta' = set_sub(grad_new', grad)
              /\ hess_inv' = update_inverse_hessian(hess_inv, grad_delta',
                                                    step_size_new, step_dir)
       /\ (pc = "take_step" /\ pc' = "after_line_search") =>
              /\ hess_inv' = hess_inv
              /\ hist'.decreased = hist.decreased
              /\ ~Less(func_new', func)
       /\ (pc \in {"step", "after_line_search"}) =>
              /\ hess_inv' \in {hess_inv, identity_matrix}
              /\ hist'.decreased = hist.decreased
       /\ (pc \notin StepLabels /\ pc # "main") => hess_inv' = hess_inv
      ]_vars

\* C20 witness: in one call of step() a candidate was rejected and the next
\* one accepted, and the inverse Hessian is the update of the one the call
\* started with.
C20_Witness ==
    /\ pc = "returned"
    /\ hist.returned = "decreased"
    /\ hist.shrunk + hist.reverted >= 1
    /\ hist.resets = 0
    /\ hess_inv # identity_matrix
    /\ hess_inv = update_inverse_hessian(identity_matrix, grad_delta,
                                         step_size_new, step_dir)

\* The unnormalized search direction of the current state.
RawDirection == matrix_vector_multiply(hess_inv, grad)

\* C16: a call of step() that finds the unnormalized direction with norm zero
\* ends in the fatal exit during the normalization: no line search is run, no
\* candidate is produced and convergence is not reported.
C16_ZeroDirectionIsFatal ==
    [][(pc = "step" /\ ~nanflag /\ mpfr_zero_p(norm(RawDirection))) =>
           /\ pc' = "exit"
           /\ exit_status' = "EXIT_FAILURE"
           /\ nanflag'
           /\ hist' = hist
           /\ step_size_new' = step_size_new
           /\ x_new' = x_new
           /\ files' = files
      ]_vars

\* C16 witness: the run has ended in failure in its first call of step(), at
\* a point where the gradient is the zero vector, before any line search.
C16_Witness ==
    /\ pc = "exit"
    /\ exit_status = "EXIT_FAILURE"
    /\ Initialized
    /\ grad = ZeroVector
    /\ mpfr_zero_p(norm(RawDirection))
    /\ AnyNaN(step_dir)
    /\ Len(files) = 1
    /\ Len(hist.ls) = 0

Candidate == set_axpy(step_size_new, step_dir, x)
Rejected ==
    /\ pc = "take_step"
    /\ ~nanflag
    /\ ~AnyNaN(Candidate)
    /\ ~IsNaN(norm(Candidate))
    /\ ~IsNaN(objective_function(obj, Candidate))
    /\ ~Decreased(objective_function(obj, Candidate), func)

\* C21: when the candidate fails to strictly decrease the objective, then
\* either the failed step is below step_size, step_size becomes the failed
\* step (so it strictly shrinks) and a new line search starts from it, or
\* step_size_new is set back to the unchanged step_size and no line search is
\* run; in both cases control is back at the zero-step test.
C21_RetryAfterRejectedCandidate ==
    [][Rejected =>
          /\ pc' = "after_line_search"
          /\ IF Less(step_size_new, step_size)
             THEN /\ step_size' = step_size_new
                  /\ Less(step_size', step_size)
                  /\ hist'.ls # hist.ls
                  /\ hist'.ls.samples[1][1] = step_size'
                  /\ step_size_new' = hist'.ls.step
             ELSE /\ step_size' = step_size
                  /\ step_size_new' = step_size
                  /\ hist'.ls = hist.ls]_vars

\* C21 witness: the shrink retry has happened: step_size is now the failed
\* step, below the step size step() was entered with, and the new line search
\* started from it.
C21_Witness ==
    /\ pc = "after_line_search"
    /\ hist.shrunk >= 1
    /\ Less(step_size, hist.pre.step_size)
    /\ hist.ls.samples[1][1] = step_size
    /\ step_size_new = hist.ls.step

\* C22: no step of step() changes the committed point x, its norm, func,
\* grad, grad_norm, the iteration counter or the run identifier; of the
\* committed state only step_size is written, and only by the shrink retry,
\* which gives it the failed step.
C22_StepKeepsCommittedState ==
    [][(pc \in StepLabels) =>
          (/\ x' = x /\ x_norm' = x_norm
           /\ func' = func
           /\ grad' = grad /\ grad_norm' = grad_norm
           /\ iter_count' = iter_count
           /\ uuid_seg' = uuid_seg
           /\ \/ step_size' = step_size
              \/ /\ Rejected
                 /\ Less(step_size_new, step_size)
                 /\ step_size' = step_size_new)]_vars

\* C22 witness: step() has returned with a strict decrease after a shrink
\* retry: the candidate slots, the direction and the inverse Hessian were
\* written and step_size was replaced, and the committed point, values and
\* counters are the ones step() was entered with.
C22_Witness ==
    /\ pc = "returned"
    /\ hist.returned = "decreased"
    /\ hist.shrunk >= 1
    /\ x_new # x /\ grad_new # grad
    /\ Less(func_new, func)
    /\ hess_inv # identity_matrix
    /\ Less(step_size, hist.pre.step_size)
    /\ [hist.pre EXCEPT !.step_size = step_size] = Committed

\* The steps sampled by a decrease path: the initial step and its doublings.
Doublings(samples, initial) ==
    \A i \in 1..Len(samples) : samples[i][1] = Mul2(initial, i - 1)
\* Every doubling before the last sampled one decreased the objective.
FallingBeforeLast(samples) ==
    \A i \in 2..(Len(samples) - 1) : Less(samples[i][2], samples[i - 1][2])
LastFell(samples) ==
    Less(samples[Len(samples)][2], samples[Len(samples) - 1][2])

\* C23, for quadratic_line_search: the decrease path samples the initial step
\* and at most 4 doublings, stops at the first doubling that does not
\* decrease the objective, and after 4 decreasing doublings returns 16 times
\* the initial step, unfitted.
RoutineDoublesAtMost4 ==
    (pc = "searched" /\ ~hist.ls.nan /\ Less(hist.ls.samples[1][2], func)) =>
        /\ Len(hist.ls.samples) \in 2..5
        /\ Doublings(hist.ls.samples, step_size)
        /\ FallingBeforeLast(hist.ls.samples)
        /\ IF LastFell(hist.ls.samples)
           THEN /\ hist.ls.path = "cap"
                /\ Len(hist.ls.samples) = 5
                /\ hist.ls.step = Mul2(step_size, 4)
           ELSE hist.ls.path = "decrease"

\* C23, for QuadraticLineSearcher::search.
SearcherDoublesAtMost4 ==
    (pc = "searched" /\ ~hist.qs.nan /\ hist.qs.path = "cap") =>
        /\ Len(hist.qs.samples) = 5
        /\ Doublings(hist.qs.samples, step_size)
        /\ LastFell(hist.qs.samples)
        /\ hist.qs.step = Mul2(step_size, 4)

\* C23: in the decrease path the step is doubled at most 4 times, and no
\* returned step exceeds 16 times the initial step.
C23_AtMostFourDoublings ==
    /\ RoutineDoublesAtMost4
    /\ SearcherDoublesAtMost4
    /\ (pc = "searched" /\ ~hist.ls.nan) =>
           ~Less(Mul2(step_size, 4), hist.ls.step)
    /\ (pc = "searched" /\ ~hist.qs.nan) =>
           ~Less(Mul2(step_size, 4), hist.qs.step)

\* C23 witness: both implementations doubled 4 times and returned 16 times
\* the initial step.
C23_Witness ==
    /\ pc = "searched"
    /\ ~hist.ls.nan /\ ~hist.qs.nan
    /\ hist.ls.path = "cap" /\ hist.qs.path = "cap"
    /\ hist.ls.step = Mul2(step_size, 4)
    /\ hist.qs.step = Mul2(step_size, 4)

\* The steps sampled by an increase path: the initial step and its halvings.
Halvings(samples, initial) ==
    \A i \in 1..Len(samples) : samples[i][1] = Div2(initial, i - 1)
NoImprovementBefore(samples, k, f0) ==
    \A i \in 1..(k - 1) : ~Less(samples[i][2], f0)
\* The point at step t is x itself.
AtStart(t) == elementwise_equal(x, set_axpy(t, step_dir, x))

\* C24, for quadratic_line_search: the increase path samples the halvings of
\* the initial step until one strictly improves on func; a halving whose point
\* is x itself ends the search with step 0 and is not sampled; step 0 is
\* returned in no other way.
RoutineHalves ==
    (pc = "searched" /\ ~hist.ls.nan) =>
        /\ ~Less(hist.ls.samples[1][2], func) =>
               /\ Halvings(hist.ls.samples, step_size)
               /\ NoImprovementBefore(hist.ls.samples, Len(hist.ls.samples),
                                      func)
               /\ \A i \in 2..Len(hist.ls.samples) :
                      ~AtStart(hist.ls.samples[i][1])
               /\ IF Less(hist.ls.samples[Len(hist.ls.samples)][2], func)
                  THEN hist.ls.path = "increase"
                  ELSE /\ hist.ls.path = "zero"
                       /\ AtStart(Div2(step_size, Len(hist.ls.samples)))
        /\ mpfr_zero_p(hist.ls.step) <=> hist.ls.path = "zero"

\* C24, for QuadraticLineSearcher::search: the same, and the best value
\* returned with step 0 is f0.
SearcherHalves ==
    (pc = "searched" /\ ~hist.qs.nan) =>
        /\ hist.qs.path = "zero" =>
               /\ hist.qs.value = func
               /\ NoImprovementBefore(hist.qs.samples,
                                      Len(hist.qs.samples) + 1, func)
               /\ AtStart(hist.qs.raw)
               /\ \A i \in 1..Len(hist.qs.samples) :
                      hist.qs.samples[i][1] # hist.qs.raw
        /\ mpfr_zero_p(hist.qs.step) <=> hist.qs.path = "zero"

\* C24: in the increase path the step is halved until a strict improvement is
\* found; a halved step whose point is identical to x0 ends the search at
\* once with step 0 and best value f0, without an evaluation there; with a
\* positive initial step, step 0 is returned in no other way.
C24_HalvingAndZeroStep == RoutineHalves /\ SearcherHalves

\* C24 witness: along a direction that is not zero, both implementations
\* halved a positive initial step, found no improvement, and returned step 0
\* at the first halving whose point is x itself.
C24_Witness ==
    /\ pc = "searched"
    /\ ~hist.ls.nan /\ ~hist.qs.nan
    /\ step_dir # ZeroVector
    /\ Less(Zero, step_size)
    /\ hist.ls.path = "zero" /\ hist.qs.path = "zero"
    /\ Len(hist.ls.samples) >= 3
    /\ hist.ls.step = Zero /\ hist.qs.step = Zero
    /\ hist.qs.value = func

\* t is strictly positive and strictly below hi.
Within(t, hi) == Less(Zero, t) /\ Less(t, hi)

\* C25, for quadratic_line_search: the step returned after an interpolation
\* is the fit when the fit is strictly inside the bracket, and the fallback
\* otherwise: h in the decrease path (bracket 2h), h/2 in the increase path
\* (bracket h).
RoutineGuardsFit ==
    (pc = "searched" /\ ~hist.ls.nan) =>
        /\ hist.ls.path = "decrease" =>
               /\ Within(hist.ls.step, Mul2(hist.ls.h, 1))
               /\ hist.ls.step = IF Within(hist.ls.raw, Mul2(hist.ls.h, 1))
                                 THEN hist.ls.raw ELSE hist.ls.h
        /\ hist.ls.path = "increase" =>
               /\ Within(hist.ls.step, hist.ls.h)
               /\ hist.ls.step = IF Within(hist.ls.raw, hist.ls.h)
                                 THEN hist.ls.raw ELSE Div2(hist.ls.h, 1)
        /\ ~Less(hist.ls.step, Zero)

\* C25, for QuadraticLineSearcher::search: the step selected after an
\* interpolation is strictly inside the bracket, and is the fallback when the
\* fit is not.
SearcherGuardsFit ==
    (pc = "searched" /\ ~hist.qs.nan) =>
        /\ hist.qs.path = "decrease" =>
               /\ Within(hist.qs.step, Mul2(hist.qs.h, 1))
               /\ Within(hist.qs.raw, Mul2(hist.qs.h, 1))
                      \/ hist.qs.step = hist.qs.h
        /\ hist.qs.path = "increase" =>
               /\ Within(hist.qs.step, hist.qs.h)
               /\ Within(hist.qs.raw, hist.qs.h)
                      \/ hist.qs.step = Div2(hist.qs.h, 1)
        /\ ~Less(hist.qs.step, Zero)

\* C25: both interpolation branches return a step strictly inside their
\* bracket, (0, 2h) in the decrease path and (0, h) in the increase path,
\* falling back to h and to h/2 when the fit is not; a line search started
\* from a positive step returns no negative step.
C25_FitStaysInBracket == RoutineGuardsFit /\ SearcherGuardsFit

\* C25 witness: in the increase path the fit is not positive, and both
\* implementations return half the last step that did not improve.
C25_Witness ==
    /\ pc = "searched"
    /\ ~hist.ls.nan /\ ~hist.qs.nan
    /\ hist.ls.path = "increase" /\ hist.qs.path = "increase"
    /\ ~Within(hist.ls.raw, hist.ls.h)
    /\ ~Within(hist.qs.raw, hist.qs.h)
    /\ hist.ls.step = Div2(hist.ls.h, 1)
    /\ hist.qs.step = Div2(hist.qs.h, 1)

\* step() has been called: the first checkpoint is written and control is
\* past the place of set_step_size.
StepCalled ==
    /\ Initialized
    /\ Len(files) >= 1
    /\ pc \notin {"main", "start", "set_step_size", "step"}

\* What step() does with a zero step size when no fault is raised: both line
\* searches return a zero step, no candidate is evaluated, and step() returns
\* with the candidate slots equal to the current point; the run then ends as
\* converged, at the point and the iteration it started with.
NoProgressWithoutStepSize ==
    /\ pc # "take_step"
    /\ Initialized => step_size = Zero /\ iter_count = hist.iter_start
    /\ pc = "after_line_search" =>
           /\ mpfr_zero_p(hist.ls.step)
           /\ mpfr_zero_p(step_size_new)
    /\ pc = "returned" =>
           /\ hist.returned = "converged"
           /\ hist.resets = 1
           /\ mpfr_zero_p(hist.ls.step)
           /\ mpfr_zero_p(step_size_new)
           /\ hess_inv = identity_matrix
           /\ x = hist.pre.x /\ func = hist.pre.func
           /\ x_new = x /\ func_new = func /\ grad_new = grad
           /\ ~objective_function_has_decreased
    /\ exit_status = "EXIT_SUCCESS" =>
           /\ hist.returned = "converged"
           /\ hist.decreased = 0
           /\ files[Len(files)].x = files[1].x

\* C27 as claimed: with a zero step size, step() reports convergence without
\* moving, for every objective function and starting point.
C27_ZeroStepSizeConverges ==
    /\ NoProgressWithoutStepSize
    /\ StepCalled => exit_status # "EXIT_FAILURE"

\* C27 as amended: with a zero step size, step() either ends the process
\* with the not-a-number fault (the gradient at the starting point is zero)
\* or reports convergence without moving.
C27_ZeroStepSizeNoProgress ==
    /\ NoProgressWithoutStepSize
    /\ (StepCalled /\ exit_status = "EXIT_FAILURE") =>
           /\ nanflag
           /\ grad = ZeroVector
           /\ hist.returned = "none"

\* C27 witness: at a point where the gradient is not zero, step() was called
\* with a zero step size, reset the inverse Hessian, found a zero step twice
\* and returned; the run ended as converged where it started.
C27_Witness ==
    /\ exit_status = "EXIT_SUCCESS"
    /\ step_size = Zero
    /\ grad # ZeroVector
    /\ hist.returned = "converged"
    /\ hist.resets = 1
    /\ x_new = x
    /\ Len(files) = 2

\* The last two values sampled by a line search that ended in an
\* interpolation: f1 at the last bracketing step h, then f2.
FitF1(r) == r.samples[Len(r.samples) - 1][2]
FitF2(r) == r.samples[Len(r.samples)][2]
\* The divisors as the code computes them (lines 63-65 and 106-108).
DenomDecrease(f0, f1, f2) == Sub(Sub(Mul2(f1, 1), f2), f0)
DenomIncrease(f0, f1, f2) == Add(Sub(f1, Mul2(f2, 1)), f0)

\* C28: whenever a line search interpolates, its divisor is not zero:
\* in the decrease path (f1 < f0 and f2 >= f1) 2*f1 - f2 - f0 is strictly
\* negative, in the increase path (f1 >= f0, f2 < f0, f2 sampled at half the
\* step of f1) f1 - 2*f2 + f0 is strictly positive; in both implementations
\* the quotient is a number and no not-a-number fault is raised.
C28_DivisorNeverZero ==
    (pc = "searched" /\ hist.ls.path \in {"decrease", "increase"}) =>
        /\ IF hist.ls.path = "decrease"
           THEN /\ Less(FitF1(hist.ls), func)
                /\ GreaterEqual(FitF2(hist.ls), FitF1(hist.ls))
                /\ Less(DenomDecrease(func, FitF1(hist.ls), FitF2(hist.ls)),
                        Zero)
                /\ hist.ls.raw = FitDecrease(func, FitF1(hist.ls),
                                             FitF2(hist.ls), hist.ls.h)
           ELSE /\ GreaterEqual(FitF1(hist.ls), func)
                /\ Less(FitF2(hist.ls), func)
                /\ hist.ls.samples[Len(hist.ls.samples)][1]
                       = Div2(hist.ls.h, 1)
                /\ Less(Zero,
                        DenomIncrease(func, FitF1(hist.ls), FitF2(hist.ls)))
                /\ hist.ls.raw = FitIncrease(func, FitF1(hist.ls),
                                             FitF2(hist.ls), hist.ls.h)
        /\ IsNum(hist.ls.raw)
        /\ ~hist.ls.nan
        /\ hist.qs.path = hist.ls.path
        /\ IsNum(hist.qs.raw)
        /\ ~hist.qs.nan

\* C28 witness: an interpolation of the increase path in which the values
\* sampled differ by so little that the dividend rounds to zero; the divisor
\* is still strictly positive.
C28_Witness ==
    /\ pc = "searched"
    /\ hist.ls.path = "increase"
    /\ Less(Zero, DenomIncrease(func, FitF1(hist.ls), FitF2(hist.ls)))
    /\ hist.ls.raw = Zero
    /\ ~hist.ls.nan


\* The iteration counter in the name of the checkpoint written last.
LastCheckpoint == files[Len(files)].iter_count
\* iter_count is g iterations past the last checkpoint.
Behind(g) == iter_count = MulAdd(LastCheckpoint, 1, g, 1)

\* C26 as stated: once a checkpoint is written, the iteration counter is never
\* more than 99 past the counter of the last checkpoint.
C26_AtMost99Behind ==
    files # << >> => \E g \in 0..(CheckpointPeriod - 1) : Behind(g)

\* C26: a run writes its first checkpoint before its first step(), under the
\* counter it starts from; from then on the iteration counter is at most 100
\* past the counter of the last checkpoint, and it is 100 past it only between
\* the shift() that makes it a multiple of 100 and the checkpoint that
\* follows; everywhere else it is at most 99 past it.
C26_AtMost100Behind ==
    /\ (Initialized /\ files = << >>) =>
          (pc = "start" /\ iter_count = hist.iter_start)
    /\ files # << >> =>
          /\ files[1].iter_count = hist.iter_start
          /\ \E g \in 0..CheckpointPeriod : Behind(g)
          /\ Behind(CheckpointPeriod) =>
                (pc = "shifted" /\ Mod(iter_count, CheckpointPeriod) = 0)

\* C26 witness: a run resumed at iteration 99 has written checkpoints at 99
\* and at 100 and has just committed its 101st accepted step: the iteration
\* counter is 200 and the last checkpoint is the one of iteration 100.
C26_Witness ==
    /\ pc = "shifted"
    /\ hist.iter_start = U64(99)
    /\ hist.decreased = 101
    /\ iter_count = U64(200)
    /\ Len(files) = 2
    /\ LastCheckpoint = U64(100)
    /\ Behind(CheckpointPeriod)
====
